---------------------------- MODULE Spec2Model ----------------------------
(***************************************************************************)
(* Bubble-graph tool: the specification model (src/lib/spec.ts), the room  *)
(* type catalog (src/lib/presets.ts) and the layout-force composition of   *)
(* the application component (src/App.tsx).                                *)
(*                                                                         *)
(* Numbers.  JavaScript numbers are modelled in fixed point:               *)
(*   areas            in 1/100 m2     (13 m2 is 1300)                      *)
(*   edge weights     in 1/100        (1.5 is 150)                         *)
(*   allowance ratio  in percent      (0.15 is 15)                         *)
(*   radii            in 1/1000 px    (8 px is 8000)                       *)
(*   scale factors    in 1/1000                                            *)
(*   positions        in px, velocities in 1/1000 px per tick              *)
(* Divisions round toward minus infinity, those of the negative-relation   *)
(* force toward zero (so that negating an operand negates the result, as   *)
(* it does in floating point).                                             *)
(*                                                                         *)
(* Optional fields.  An optional field of a JavaScript object is a         *)
(* sequence of length 0 (absent / undefined) or 1 (present).               *)
(***************************************************************************)
EXTENDS Integers, Sequences, FiniteSets, Bags, TLC

VARIABLES
    \* --- PresetGenerator: formDataToSpec on one FormData ---
    genPhase, genForm, genSpec,
    \* --- area-budget scaling on one room list ---
    scPhase, scIn, scOut,
    \* --- pruneSpecToRoomType on a hand-edited spec ---
    prPhase, prSpec, prEdits, prRoomType, prOut,
    \* --- the radius of one node whose area is edited ---
    rdArea, rdRadius,
    \* --- the negative-relation force on a small node set ---
    fNodes, fPairs, fNodeById, fPrev, fContrib, fTicks,
    \* --- SpecCodec: a hand-authored spec is encoded and the token decoded ---
    cdPhase, cdSpec, cdEdits, cdBroken, cdToken, cdResult,
    \* --- SpecApp: the App component, its engine and the ticks of the simulation ---
    appPhase, appQuery, appSpec, appFormData, appRoomType, appDims, appEngine,
    appEdits, appTicks, appTickForces,
    \* --- SpecFit: the fit-to-view timers of the App component ---
    ftPhase, ftDims, ftTimers, ftEvents, ftFitted, ftFitDims,
    \* --- SpecGraph: the node and link set derived from a spec ---
    gdPhase, gdSpec, gdData

genVars == <<genPhase, genForm, genSpec>>
scVars == <<scPhase, scIn, scOut>>
prVars == <<prPhase, prSpec, prEdits, prRoomType, prOut>>
rdVars == <<rdArea, rdRadius>>
fVars == <<fNodes, fPairs, fNodeById, fPrev, fContrib, fTicks>>
cdVars == <<cdPhase, cdSpec, cdEdits, cdBroken, cdToken, cdResult>>
appVars == <<appPhase, appQuery, appSpec, appFormData, appRoomType, appDims, appEngine,
             appEdits, appTicks, appTickForces>>
ftVars == <<ftPhase, ftDims, ftTimers, ftEvents, ftFitted, ftFitDims>>
gdVars == <<gdPhase, gdSpec, gdData>>
vars == <<genVars, scVars, prVars, rdVars, fVars, cdVars, appVars, ftVars, gdVars>>

---------------------------------------------------------------------------
(* Generic helpers *)

None == <<>>
Some(v) == <<v>>
IsSome(o) == Len(o) = 1
Get(o) == o[1]

Range(s) == {s[i] : i \in 1..Len(s)}

MapSeq(s, F(_)) == [i \in 1..Len(s) |-> F(s[i])]

RECURSIVE SumSeq(_)
SumSeq(s) == IF s = <<>> THEN 0 ELSE Head(s) + SumSeq(Tail(s))

Max2(a, b) == IF a >= b THEN a ELSE b
Min2(a, b) == IF a <= b THEN a ELSE b

\* floor of the square root (Math.sqrt, rounded down to the model's unit)
RECURSIVE SqrtSearch(_, _, _)
SqrtSearch(n, lo, hi) ==
    IF lo >= hi THEN lo
    ELSE LET mid == (lo + hi + 1) \div 2
         IN  IF mid * mid <= n THEN SqrtSearch(n, mid, hi) ELSE SqrtSearch(n, lo, mid - 1)

ISqrt(n) == SqrtSearch(n, 0, Min2(n, 46340))

Abs(x) == IF x < 0 THEN -x ELSE x

\* division rounding toward zero
TruncDiv(a, b) == (IF (a < 0) # (b < 0) THEN -1 ELSE 1) * (Abs(a) \div Abs(b))

\* one square metre, in the model's area unit
M2(x) == x * 100

EmptyRelations == [positive |-> <<>>, negative |-> <<>>]

---------------------------------------------------------------------------
(* PresetCatalog *)

Room(id, name, zone) ==
    [id |-> id, name |-> name, zone |-> zone, areaMin |-> None, areaMax |-> None]

Rel(source, positive, negative) ==
    [source |-> source, positive |-> positive, negative |-> negative]

ROOM_TYPE_PRESETS ==
    <<
      [ rooms |-> << Room("living", "Living Room", "public"),
                     Room("kitchen", "Kitchen", "service"),
                     Room("bath", "Bathroom", "service"),
                     Room("bed1", "Bedroom", "private"),
                     Room("balcony", "Balcony", "public"),
                     Room("entryway", "Entryway", "public") >>,
        relations |-> << Rel("living", <<"balcony">>, <<"kitchen">>),
                         Rel("bed1", <<>>, <<"kitchen">>) >>,
        unitTargetAreaM2 |-> M2(35),
        allowanceRatio |-> Some(15),
        unitPaddingPx |-> Some(10) ],
      [ rooms |-> << Room("living", "Living Room", "public"),
                     Room("dining", "Dining Room", "public"),
                     Room("kitchen", "Kitchen", "service"),
                     Room("bath", "Bathroom", "service"),
                     Room("bed1", "Master Bedroom", "private"),
                     Room("bed2", "Secondary Bedroom", "private"),
                     Room("balcony", "Balcony", "public"),
                     Room("entryway", "Entryway", "public") >>,
        relations |-> << Rel("living", <<"dining", "balcony">>, <<>>),
                         Rel("bed1", <<"bed2">>, <<>>),
                         Rel("bed2", <<>>, <<"kitchen">>) >>,
        unitTargetAreaM2 |-> M2(60),
        allowanceRatio |-> Some(15),
        unitPaddingPx |-> Some(10) ],
      [ rooms |-> << Room("living", "Living Room", "public"),
                     Room("dining", "Dining Room", "public"),
                     Room("kitchen", "Kitchen", "service"),
                     Room("bath", "Bathroom", "service"),
                     Room("bed1", "Master Bedroom", "private"),
                     Room("bed2", "Secondary Bedroom 1", "private"),
                     Room("bed3", "Secondary Bedroom 2", "private"),
                     Room("balcony", "Balcony", "public"),
                     Room("entryway", "Entryway", "public") >>,
        relations |-> << Rel("living", <<"dining">>, <<>>),
                         Rel("bed1", <<"bed2">>, <<>>),
                         Rel("bed2", <<"bed3">>, <<>>) >>,
        unitTargetAreaM2 |-> M2(85),
        allowanceRatio |-> Some(15),
        unitPaddingPx |-> Some(10) ],
      [ rooms |-> << Room("living", "Living Room", "public"),
                     Room("dining", "Dining Room", "public"),
                     Room("kitchen", "Kitchen", "service"),
                     Room("bath", "Bathroom", "service"),
                     Room("bed1", "Master Bedroom", "private"),
                     Room("bed2", "Secondary Bedroom 1", "private"),
                     Room("bed3", "Secondary Bedroom 2", "private"),
                     Room("bed4", "Secondary Bedroom 3", "private"),
                     Room("balcony", "Balcony", "public"),
                     Room("entryway", "Entryway", "public") >>,
        relations |-> << Rel("living", <<"dining">>, <<>>),
                         Rel("bed1", <<"bed2">>, <<>>),
                         Rel("bed3", <<>>, <<"bed4">>) >>,
        unitTargetAreaM2 |-> M2(150),
        allowanceRatio |-> Some(15),
        unitPaddingPx |-> Some(10) ]
    >>

RoomTypes == 1..4

getRoomTypePreset(roomType) == ROOM_TYPE_PRESETS[roomType]

\* the catalog slot ids of a room count
SlotIds(roomType) == {r.id : r \in Range(getRoomTypePreset(roomType).rooms)}

---------------------------------------------------------------------------
(* SpecModel helpers *)

\* FormData['areas'] of getDefaultSpecByRoomType, in declaration order
Areas(mb, sb, sb2, sb3, lr, dr, k, b, bal, e) ==
    [masterBedroom |-> M2(mb), secondBedroom |-> M2(sb), secondBedroom2 |-> M2(sb2),
     secondBedroom3 |-> M2(sb3), livingRoom |-> M2(lr), diningRoom |-> M2(dr),
     kitchen |-> M2(k), bathroom |-> M2(b), balcony |-> M2(bal), entryway |-> M2(e)]

getDefaultSpecByRoomType(roomType) ==
    LET defaultAreas ==
            CASE roomType = 1 -> Areas(14, 0, 0, 0, 30, 6, 9, 5, 6, 3)
              [] roomType = 2 -> Areas(13, 11, 0, 0, 28, 8, 8, 4, 6, 3)
              [] roomType = 3 -> Areas(12, 10, 9, 0, 26, 8, 8, 4, 5, 3)
              [] roomType = 4 -> Areas(12, 10, 9, 8, 24, 8, 8, 4, 5, 3)
              [] OTHER -> Areas(12, 10, 10, 10, 25, 8, 8, 4, 6, 3)
        defaultConditions ==
            [scenicView |-> FALSE, noiseControl |-> FALSE, ventilation |-> TRUE]
    IN  [roomType |-> roomType, areas |-> defaultAreas, conditions |-> defaultConditions]

generateSpecByRoomType(roomType) == getDefaultSpecByRoomType(roomType)

\* areaMap of generateSpacesByRoomType: room id -> entered area
areaMap(areas, id) ==
    CASE id = "bed1" -> areas.masterBedroom
      [] id = "bed2" -> areas.secondBedroom
      [] id = "bed3" -> areas.secondBedroom2
      [] id = "bed4" -> areas.secondBedroom3
      [] id = "living" -> areas.livingRoom
      [] id = "dining" -> areas.diningRoom
      [] id = "kitchen" -> areas.kitchen
      [] id = "bath" -> areas.bathroom
      [] id = "balcony" -> areas.balcony
      [] id = "entryway" -> areas.entryway

\* tags pushed for one room, in the order of the three tests
roomTags(id, cond) ==
    (IF cond.scenicView /\ id \in {"living", "bed1", "balcony"} THEN <<"view">> ELSE <<>>)
    \o (IF cond.noiseControl /\ id \in {"bed2", "bath"} THEN <<"noise">> ELSE <<>>)
    \o (IF cond.ventilation /\ id \in {"living", "kitchen", "entryway"} THEN <<"vent">> ELSE <<>>)

generateSpacesByRoomType(roomType, areas, conditions) ==
    LET rooms == getRoomTypePreset(roomType).rooms
        space(room) ==
            LET tags == roomTags(room.id, conditions)
                entered == areaMap(areas, room.id)
            IN  [id |-> room.id,
                 name |-> Some(room.name),
                 area_target |-> IF entered = 0 THEN M2(5) ELSE entered,
                 zone |-> room.zone,
                 areaMin |-> room.areaMin,
                 areaMax |-> room.areaMax,
                 tags |-> IF Len(tags) > 0 THEN Some(tags) ELSE None,
                 meta |-> None,
                 relations |-> EmptyRelations]
    IN  MapSeq(rooms, space)

---------------------------------------------------------------------------
(* Area-budget scaling *)

\* (unitTargetAreaM2 * (1 - allowanceRatio)) / sum, in 1/1000
scaleFactor(unitTargetAreaM2, allowanceRatio, sum) ==
    (unitTargetAreaM2 * (100 - allowanceRatio) * 10) \div sum

\* one rooms.forEach pass: multiply, then clamp to the optional bounds
scalePass(rooms, scale) ==
    LET next(space) ==
            LET a0 == (space.area_target * scale) \div 1000
                a1 == IF IsSome(space.areaMin) THEN Max2(Get(space.areaMin), a0) ELSE a0
                a2 == IF IsSome(space.areaMax) THEN Min2(Get(space.areaMax), a1) ELSE a1
            IN  [space EXCEPT !.area_target = a2]
    IN  MapSeq(rooms, next)

areaSum(rooms) == SumSeq([i \in 1..Len(rooms) |-> rooms[i].area_target])

\* a threshold of 1.2 instead of 0.95
exceeds95_loose(sum, unitTargetAreaM2) == 100 * sum > 120 * unitTargetAreaM2

\* scaledSum > unitTargetAreaM2 * 0.95
exceeds95(sum, unitTargetAreaM2) == 100 * sum > 95 * unitTargetAreaM2

\* overBudget is not computed again after the second pass
scaleRoomAreasToUnitTarget_staleFlag(spaces, unitTargetAreaM2, allowanceRatio) ==
    LET roomsSum == areaSum(spaces)
    IN  IF roomsSum <= 0 \/ unitTargetAreaM2 <= 0
        THEN [spaces |-> spaces, roomsSum |-> roomsSum, overBudget |-> FALSE, passes |-> 0]
        ELSE
          LET rooms1 == scalePass(spaces, scaleFactor(unitTargetAreaM2, allowanceRatio, roomsSum))
              sum1 == areaSum(rooms1)
          IN  IF ~exceeds95(sum1, unitTargetAreaM2)
              THEN [spaces |-> rooms1, roomsSum |-> sum1, overBudget |-> FALSE, passes |-> 1]
              ELSE
                LET rooms2 == scalePass(rooms1, scaleFactor(unitTargetAreaM2, allowanceRatio, sum1))
                    sum2 == areaSum(rooms2)
                IN  [spaces |-> rooms2, roomsSum |-> sum2, overBudget |-> TRUE, passes |-> 2]

scaleRoomAreasToUnitTarget(spaces, unitTargetAreaM2, allowanceRatio) ==
    LET roomsSum == areaSum(spaces)
    IN  IF roomsSum <= 0 \/ unitTargetAreaM2 <= 0
        THEN [spaces |-> spaces, roomsSum |-> roomsSum, overBudget |-> FALSE, passes |-> 0]
        ELSE
          LET rooms1 == scalePass(spaces, scaleFactor(unitTargetAreaM2, allowanceRatio, roomsSum))
              sum1 == areaSum(rooms1)
          IN  IF ~exceeds95(sum1, unitTargetAreaM2)
              THEN [spaces |-> rooms1, roomsSum |-> sum1, overBudget |-> FALSE, passes |-> 1]
              ELSE
                LET rooms2 == scalePass(rooms1, scaleFactor(unitTargetAreaM2, allowanceRatio, sum1))
                    sum2 == areaSum(rooms2)
                IN  [spaces |-> rooms2, roomsSum |-> sum2,
                     overBudget |-> exceeds95(sum2, unitTargetAreaM2), passes |-> 2]

---------------------------------------------------------------------------
(* PresetGenerator *)

Edge(source, target, weight, type) ==
    [source |-> source, target |-> target, weight |-> weight, type |-> type, meta |-> None]

Bedrooms == {"bed1", "bed2", "bed3", "bed4"}

\* a factor of 2 instead of 1.5
boost_double(weight) == (IF weight = 0 THEN 100 ELSE weight) * 2

\* (e.weight || 1) * 1.5
boost(weight) == ((IF weight = 0 THEN 100 ELSE weight) * 3) \div 2

generateEdgesWithConditions(conditions) ==
    LET edges == << Edge("entryway", "living", 200, "adjacent"),
                    Edge("living", "dining", 200, "adjacent"),
                    Edge("living", "kitchen", 150, "adjacent"),
                    Edge("dining", "kitchen", 150, "adjacent"),
                    Edge("living", "bed1", 100, "near"),
                    Edge("living", "bed2", 100, "near"),
                    Edge("living", "balcony", 100, "adjacent"),
                    Edge("bed1", "bath", 50, "adjacent"),
                    Edge("bed2", "bath", 50, "adjacent"),
                    Edge("kitchen", "bath", 20, "separate") >>
        vent(e) ==
            IF e.source \in Bedrooms /\ e.target \in {"living", "entryway"}
            THEN [e EXCEPT !.weight = boost(e.weight)]
            ELSE IF e.target \in Bedrooms /\ e.source \in {"living", "entryway"}
            THEN [e EXCEPT !.weight = boost(e.weight)]
            ELSE e
    IN  IF conditions.ventilation THEN MapSeq(edges, vent) ELSE edges

\* the display-localized ordinal title of a room count
roomTypeTitle(roomType) == <<"1-room type", "2-room type", "3-room type", "4-room type">>[roomType]

FilterIds(ids, allowed) == SelectSeq(ids, LAMBDA id : id \in allowed)

\* the unit space given the area the rooms were scaled to
unitSpaceOf_scaled(preset) ==
    [id |-> "unit", name |-> Some("Unit"),
     area_target |-> (preset.unitTargetAreaM2 * 85) \div 100, zone |-> "unit",
     areaMin |-> None, areaMax |-> None, tags |-> None, meta |-> None,
     relations |-> EmptyRelations]

\* const unitSpace = { id: 'unit', ... }
unitSpaceOf(preset) ==
    [id |-> "unit", name |-> Some("Unit"),
     area_target |-> preset.unitTargetAreaM2, zone |-> "unit",
     areaMin |-> None, areaMax |-> None, tags |-> None, meta |-> None,
     relations |-> EmptyRelations]

\* only the source of an edge is looked up
filterEdges_sourceOnly(edges, allowedIds) ==
    SelectSeq(edges, LAMBDA e : e.source \in allowedIds)

\* edges.filter(edge => allowedIds.has(edge.source) && allowedIds.has(edge.target))
filterEdges(edges, allowedIds) ==
    SelectSeq(edges, LAMBDA e : e.source \in allowedIds /\ e.target \in allowedIds)

formDataToSpec(formData) ==
    LET preset == getRoomTypePreset(formData.roomType)
        allowanceRatio == IF IsSome(preset.allowanceRatio) THEN Get(preset.allowanceRatio) ELSE 15
        spaces == generateSpacesByRoomType(formData.roomType, formData.areas, formData.conditions)
        scaled == scaleRoomAreasToUnitTarget(spaces, preset.unitTargetAreaM2, allowanceRatio)
        unitSpace == unitSpaceOf(preset)
        roomsWithUnit == <<unitSpace>> \o scaled.spaces
        edges == generateEdgesWithConditions(formData.conditions)
        allowedIds == {r.id : r \in Range(preset.rooms)}
        withRelations(s) ==
            IF s.id = "unit" THEN s
            ELSE IF \E rel \in Range(preset.relations) : rel.source = s.id
            THEN LET presetRelations == CHOOSE rel \in Range(preset.relations) : rel.source = s.id
                 IN  [s EXCEPT !.relations =
                        [positive |-> FilterIds(presetRelations.positive, allowedIds),
                         negative |-> FilterIds(presetRelations.negative, allowedIds)]]
            ELSE s
        filteredEdges == filterEdges(edges, allowedIds)
    IN  [meta |-> Some([title |-> Some(roomTypeTitle(formData.roomType)),
                        author |-> Some("Bubble Graph Tool"),
                        external |-> Some([scenicView |-> Some(formData.conditions.scenicView),
                                           noiseControl |-> Some(formData.conditions.noiseControl),
                                           ventilation |-> Some(formData.conditions.ventilation)])]),
         spaces |-> MapSeq(roomsWithUnit, withRelations),
         edges |-> filteredEdges]

\* the surviving spaces come out last first
pruneSpecToRoomType_reversed(spec, roomType) ==
    LET preset == getRoomTypePreset(roomType)
        allowedIds == {r.id : r \in Range(preset.rooms)} \cup {"unit"}
        pruneRelations(space) ==
            [space EXCEPT !.relations =
                [positive |-> FilterIds(space.relations.positive, allowedIds),
                 negative |-> FilterIds(space.relations.negative, allowedIds)]]
        kept == MapSeq(SelectSeq(spec.spaces, LAMBDA s : s.id \in allowedIds), pruneRelations)
        prunedSpaces == [i \in 1..Len(kept) |-> kept[Len(kept) + 1 - i]]
        prunedEdges == SelectSeq(spec.edges, LAMBDA e : e.source \in allowedIds /\ e.target \in allowedIds)
    IN  [spec EXCEPT !.spaces = prunedSpaces, !.edges = prunedEdges]

\* the edge list is passed through unfiltered
pruneSpecToRoomType_keepEdges(spec, roomType) ==
    LET preset == getRoomTypePreset(roomType)
        allowedIds == {r.id : r \in Range(preset.rooms)} \cup {"unit"}
        pruneRelations(space) ==
            [space EXCEPT !.relations =
                [positive |-> FilterIds(space.relations.positive, allowedIds),
                 negative |-> FilterIds(space.relations.negative, allowedIds)]]
        prunedSpaces == MapSeq(SelectSeq(spec.spaces, LAMBDA s : s.id \in allowedIds), pruneRelations)
    IN  [spec EXCEPT !.spaces = prunedSpaces]

pruneSpecToRoomType(spec, roomType) ==
    LET preset == getRoomTypePreset(roomType)
        allowedIds == {r.id : r \in Range(preset.rooms)} \cup {"unit"}
        pruneRelations(space) ==
            [space EXCEPT !.relations =
                [positive |-> FilterIds(space.relations.positive, allowedIds),
                 negative |-> FilterIds(space.relations.negative, allowedIds)]]
        prunedSpaces == MapSeq(SelectSeq(spec.spaces, LAMBDA s : s.id \in allowedIds), pruneRelations)
        prunedEdges == SelectSeq(spec.edges, LAMBDA e : e.source \in allowedIds /\ e.target \in allowedIds)
    IN  [spec EXCEPT !.spaces = prunedSpaces, !.edges = prunedEdges]

---------------------------------------------------------------------------
(* SpecModel: the schema (validateSpec) and SpecCodec                       *)
(*                                                                          *)
(* A raw spec is what a caller hands to validateSpec or to the encoder: the *)
(* JavaScript object, every field optional.  A value of an opaque meta      *)
(* record (z.any()) is [kind, num] with kind "number", "null", "NaN" or      *)
(* "Infinity".  The serialized text is [json |-> tree] for well-formed       *)
(* JSON and a token is [lz |-> text]; LZString is modelled by its contract:  *)
(* decompressFromEncodedURIComponent undoes compressToEncodedURIComponent    *)
(* and returns null or '' for anything else.                                 *)

ZoneEnum == {"public", "private", "service", "unit"}
EdgeTypeEnum == {"adjacent", "near", "separate", "avoid"}

JsNumber(n) == [kind |-> "number", num |-> n]
JsNull == [kind |-> "null", num |-> 0]
JsNaN == [kind |-> "NaN", num |-> 0]
JsInfinity == [kind |-> "Infinity", num |-> 0]

\* a validated spec seen as a raw object
RawOfSpace(sp) ==
    [id |-> Some(sp.id), name |-> sp.name, area_target |-> Some(sp.area_target),
     zone |-> Some(sp.zone), areaMin |-> sp.areaMin, areaMax |-> sp.areaMax,
     tags |-> sp.tags, meta |-> sp.meta,
     relations |-> Some([positive |-> Some(sp.relations.positive),
                         negative |-> Some(sp.relations.negative)])]

RawOfEdge(e) ==
    [source |-> Some(e.source), target |-> Some(e.target), weight |-> Some(e.weight),
     type |-> Some(e.type), meta |-> e.meta]

RawOfSpec(spec) ==
    [meta |-> spec.meta,
     spaces |-> Some(MapSeq(spec.spaces, RawOfSpace)),
     edges |-> Some(MapSeq(spec.edges, RawOfEdge))]

\* one issue of a ZodError: the path of the field (array indices from 0) and
\* the kind of its message
Issue(path, message) == [path |-> path, message |-> message]

requiredIssue(field, path) == IF field = None THEN {Issue(path, "required")} ELSE {}

minIssue(field, path) ==
    IF IsSome(field) /\ Get(field) < 0 THEN {Issue(path, "too_small")} ELSE {}

\* the enum is not checked
enumIssue_unchecked(field, enum, path) == {}

enumIssue(field, enum, path) ==
    IF IsSome(field) /\ Get(field) \notin enum THEN {Issue(path, "invalid_enum")} ELSE {}

\* the issues of SpaceSchema for spaces[i]
spaceIssues(sp, i) ==
    requiredIssue(sp.id, <<"spaces", i - 1, "id">>)
    \cup requiredIssue(sp.area_target, <<"spaces", i - 1, "area_target">>)
    \cup minIssue(sp.area_target, <<"spaces", i - 1, "area_target">>)
    \cup requiredIssue(sp.zone, <<"spaces", i - 1, "zone">>)
    \cup enumIssue(sp.zone, ZoneEnum, <<"spaces", i - 1, "zone">>)
    \cup minIssue(sp.areaMin, <<"spaces", i - 1, "areaMin">>)
    \cup minIssue(sp.areaMax, <<"spaces", i - 1, "areaMax">>)

\* the issues of EdgeSchema for edges[i]
edgeIssues(e, i) ==
    requiredIssue(e.source, <<"edges", i - 1, "source">>)
    \cup requiredIssue(e.target, <<"edges", i - 1, "target">>)
    \cup minIssue(e.weight, <<"edges", i - 1, "weight">>)
    \cup enumIssue(e.type, EdgeTypeEnum, <<"edges", i - 1, "type">>)

specIssues(raw) ==
    (IF raw.spaces = None THEN {Issue(<<"spaces">>, "required")}
     ELSE UNION {spaceIssues(Get(raw.spaces)[i], i) : i \in 1..Len(Get(raw.spaces))})
    \cup (IF raw.edges = None THEN {}
          ELSE UNION {edgeIssues(Get(raw.edges)[i], i) : i \in 1..Len(Get(raw.edges))})

\* the parsed output of SpaceSchema: relations defaulted
parsedSpace(sp) ==
    [id |-> Get(sp.id), name |-> sp.name, area_target |-> Get(sp.area_target),
     zone |-> Get(sp.zone), areaMin |-> sp.areaMin, areaMax |-> sp.areaMax,
     tags |-> sp.tags, meta |-> sp.meta,
     relations |->
        IF sp.relations = None THEN EmptyRelations
        ELSE [positive |-> IF Get(sp.relations).positive = None THEN <<>>
                           ELSE Get(Get(sp.relations).positive),
              negative |-> IF Get(sp.relations).negative = None THEN <<>>
                           ELSE Get(Get(sp.relations).negative)]]

\* the parsed output of EdgeSchema: weight defaults to 1, type to 'adjacent'
parsedEdge(e) ==
    [source |-> Get(e.source), target |-> Get(e.target),
     weight |-> IF e.weight = None THEN 100 ELSE Get(e.weight),
     type |-> IF e.type = None THEN "adjacent" ELSE Get(e.type),
     meta |-> e.meta]

NoData == [meta |-> None, spaces |-> <<>>, edges |-> <<>>]

Failure(cause, issues) == [success |-> FALSE, data |-> NoData, error |-> cause, issues |-> issues]

\* BubbleSpecSchema.safeParse(obj)
validateSpec(raw) ==
    IF specIssues(raw) # {} THEN Failure("zod", specIssues(raw))
    ELSE [success |-> TRUE,
          data |-> [meta |-> raw.meta,
                    spaces |-> MapSeq(Get(raw.spaces), parsedSpace),
                    edges |-> IF raw.edges = None THEN <<>>
                              ELSE MapSeq(Get(raw.edges), parsedEdge)],
          error |-> "", issues |-> {}]

\* JSON.stringify of one value of a meta record: NaN and Infinity become null
jsonValue(v) == IF v.kind \in {"NaN", "Infinity"} THEN JsNull ELSE v

jsonMeta(m) == IF m = None THEN None ELSE Some([k \in DOMAIN Get(m) |-> jsonValue(Get(m)[k])])

\* the space meta records are left out of the text
stringify_dropSpaceMeta(raw) ==
    [json |->
        [meta |-> raw.meta,
         spaces |-> IF raw.spaces = None THEN None
                    ELSE Some(MapSeq(Get(raw.spaces), LAMBDA sp : [sp EXCEPT !.meta = None])),
         edges |-> IF raw.edges = None THEN None
                   ELSE Some(MapSeq(Get(raw.edges), LAMBDA e : [e EXCEPT !.meta = jsonMeta(e.meta)]))]]

\* JSON.stringify(spec): absent fields stay absent, the values of the opaque
\* meta records become JSON values
stringify(raw) ==
    [json |->
        [meta |-> raw.meta,
         spaces |-> IF raw.spaces = None THEN None
                    ELSE Some(MapSeq(Get(raw.spaces), LAMBDA sp : [sp EXCEPT !.meta = jsonMeta(sp.meta)])),
         edges |-> IF raw.edges = None THEN None
                   ELSE Some(MapSeq(Get(raw.edges), LAMBDA e : [e EXCEPT !.meta = jsonMeta(e.meta)]))]]

compressToEncodedURIComponent(text) == [lz |-> text]

encodeSpecToQuery(spec) == compressToEncodedURIComponent(stringify(spec))

\* What the library returns for a token: the text that was compressed; for a
\* token that is no compressed text null, the empty string or some text that
\* is no JSON, depending on the token.
decompressFromEncodedURIComponent(token) ==
    IF "lz" \in DOMAIN token THEN Some(token.lz)
    ELSE IF "corrupt" \notin DOMAIN token THEN None
    ELSE IF token.corrupt = "null" THEN None
    ELSE IF token.corrupt = "empty" THEN Some([text |-> ""])
    ELSE Some([text |-> "garbage"])

\* without the test of the decompressed text: JSON.parse(null) is null, which
\* the schema rejects, and JSON.parse('') throws
decodeSpecFromQuery_noNullCheck(encoded) ==
    LET json == decompressFromEncodedURIComponent(encoded)
    IN  IF json = None THEN Failure("zod", {Issue(<<>>, "required")})
        ELSE IF "json" \notin DOMAIN Get(json) THEN Failure("SyntaxError", {})
        ELSE validateSpec(Get(json).json)

\* the three failures: 'decompress failed' (null or empty text), the
\* SyntaxError JSON.parse throws (caught), the ZodError of validateSpec
decodeSpecFromQuery(encoded) ==
    LET json == decompressFromEncodedURIComponent(encoded)
    IN  IF json = None \/ json = Some([text |-> ""]) THEN Failure("decompress failed", {})
        ELSE IF "json" \notin DOMAIN Get(json) THEN Failure("SyntaxError", {})
        ELSE validateSpec(Get(json).json)

\* the lines `path: message` of a failure (joined with '; ' in the code)
formatZodErrors(result) ==
    IF result.error = "zod"
    THEN IF result.issues = {} THEN {Issue(<<>>, "Validation error")} ELSE result.issues
    ELSE {Issue(<<>>, result.error)}

---------------------------------------------------------------------------
(* Node radius *)

\* the upper clamp is missing
clampNodeRadius_noMax(areaTarget, minRadius, maxRadius) ==
    LET base == ISqrt(62500 * (IF areaTarget = 0 THEN M2(1) ELSE areaTarget))
    IN  Max2(minRadius, base + 6000)

\* Math.sqrt(areaTarget || 1) * 2.5 is ISqrt(62500 * area) in 1/1000 px
clampNodeRadius(areaTarget, minRadius, maxRadius) ==
    LET base == ISqrt(62500 * (IF areaTarget = 0 THEN M2(1) ELSE areaTarget))
    IN  Max2(minRadius, Min2(maxRadius, base + 6000))

\* clampNodeRadius(node.area_target) with the default minRadius and maxRadius
getNodeRadius(area_target) == clampNodeRadius(area_target, 8000, 40000)

---------------------------------------------------------------------------
(* Negative-relation force (createNegativeForce) *)

NEGATIVE_DESIRED_DISTANCE == 260
\* 0.6, in 1/1000
NEGATIVE_STRENGTH == 600

ZeroDelta == [ax |-> 0, ay |-> 0, bx |-> 0, by |-> 0]

\* the guard "if (diff <= 0) return" is missing
pairDelta_noGuard(a, b, alpha) ==
    LET dx == b.x - a.x
        dy == b.y - a.y
        d2 == dx * dx + dy * dy
        dist == ISqrt(100 * d2)
        desired == 10 * NEGATIVE_DESIRED_DISTANCE
        diff == desired - dist
        strength == (NEGATIVE_STRENGTH * alpha) \div 1000
        push == TruncDiv(diff * strength, desired)
    IN  IF d2 = 0 THEN ZeroDelta
        ELSE [ax |-> -TruncDiv(dx * push * 10, dist), ay |-> -TruncDiv(dy * push * 10, dist),
              bx |-> TruncDiv(dx * push * 10, dist), by |-> TruncDiv(dy * push * 10, dist)]

\* the body of pairs.forEach for two resolved nodes: the velocity deltas added
\* to a and to b.  dist and desired are in 1/10 px, alpha in 1/1000.
\* Coincident nodes: dist is 1e-6 and dx = dy = 0, so ux = uy = 0.
pairDelta(a, b, alpha) ==
    LET dx == b.x - a.x
        dy == b.y - a.y
        d2 == dx * dx + dy * dy
        dist == ISqrt(100 * d2)
        desired == 10 * NEGATIVE_DESIRED_DISTANCE
        diff == desired - dist
        strength == (NEGATIVE_STRENGTH * alpha) \div 1000
        push == TruncDiv(diff * strength, desired)
    IN  IF diff <= 0 THEN ZeroDelta
        ELSE IF d2 = 0 THEN ZeroDelta
        ELSE [ax |-> -TruncDiv(dx * push * 10, dist), ay |-> -TruncDiv(dy * push * 10, dist),
              bx |-> TruncDiv(dx * push * 10, dist), by |-> TruncDiv(dy * push * 10, dist)]

\* what one pair adds: nothing when a lookup in nodeById fails
pairContribution(nodes, nodeById, p, alpha) ==
    IF p.source \notin nodeById \/ p.target \notin nodeById THEN ZeroDelta
    ELSE pairDelta(nodes[p.source], nodes[p.target], alpha)

addDelta(nodes, p, d) ==
    LET n1 == [nodes EXCEPT ![p.source].vx = @ + d.ax, ![p.source].vy = @ + d.ay]
    IN  [n1 EXCEPT ![p.target].vx = @ + d.bx, ![p.target].vy = @ + d.by]

\* force(alpha): pairs.forEach, in order
RECURSIVE negativeForce(_, _, _, _)
negativeForce(nodes, nodeById, pairs, alpha) ==
    IF pairs = <<>> THEN nodes
    ELSE LET p == Head(pairs)
             next == IF p.source \notin nodeById \/ p.target \notin nodeById THEN nodes
                     ELSE addDelta(nodes, p, pairContribution(nodes, nodeById, p, alpha))
         IN  negativeForce(next, nodeById, Tail(pairs), alpha)

---------------------------------------------------------------------------
(* Built-in specs *)

Space(id, name, area, zone, tags, positive, negative) ==
    [id |-> id, name |-> Some(name), area_target |-> M2(area), zone |-> zone,
     areaMin |-> None, areaMax |-> None, tags |-> tags, meta |-> None,
     relations |-> [positive |-> positive, negative |-> negative]]

Meta(title, author, external) ==
    [title |-> Some(title), author |-> Some(author), external |-> external]

sampleSpec ==
    [meta |-> Some(Meta("Sample Apartment", "Bubble Graph Tool", None)),
     spaces |-> << Space("living", "Living Room", 25, "public", None, <<"bed1">>, <<"kitchen">>),
                   Space("kitchen", "Kitchen", 8, "service", None, <<>>, <<"bed2">>),
                   Space("bed1", "Bedroom 1", 12, "private", None, <<"bed2">>, <<>>),
                   Space("bed2", "Bedroom 2", 10, "private", None, <<>>, <<>>),
                   Space("bath", "Bathroom", 4, "service", None, <<>>, <<>>) >>,
     edges |-> << Edge("living", "kitchen", 200, "adjacent"),
                  Edge("living", "bed1", 100, "near"),
                  Edge("living", "bed2", 100, "near"),
                  Edge("bed1", "bath", 50, "adjacent"),
                  Edge("bed2", "bath", 50, "adjacent"),
                  Edge("kitchen", "bath", 20, "separate") >>]

twoRoomStandardPreset ==
    [meta |-> Some(Meta("2-room standard", "Bubble Graph Tool",
                        Some([scenicView |-> Some(FALSE), noiseControl |-> Some(FALSE),
                              ventilation |-> Some(TRUE)]))),
     spaces |-> << Space("living", "Living Room", 25, "public", Some(<<"vent", "view">>), <<>>, <<>>),
                   Space("dining", "Dining Room", 8, "public", None, <<>>, <<>>),
                   Space("kitchen", "Kitchen", 8, "service", Some(<<"vent">>), <<>>, <<>>),
                   Space("bath", "Bathroom", 4, "service", Some(<<"noise">>), <<>>, <<>>),
                   Space("bed1", "Master Bedroom", 12, "private", Some(<<"view">>), <<>>, <<>>),
                   Space("bed2", "Secondary Bedroom", 10, "private", Some(<<"noise">>), <<>>, <<>>),
                   Space("balcony", "Balcony", 6, "public", Some(<<"view">>), <<>>, <<>>),
                   Space("entryway", "Entryway", 3, "public", Some(<<"vent">>), <<>>, <<>>) >>,
     edges |-> << Edge("entryway", "living", 200, "adjacent"),
                  Edge("living", "dining", 200, "adjacent"),
                  Edge("living", "kitchen", 150, "adjacent"),
                  Edge("dining", "kitchen", 150, "adjacent"),
                  Edge("living", "bed1", 150, "near"),
                  Edge("living", "bed2", 100, "near"),
                  Edge("living", "balcony", 100, "adjacent"),
                  Edge("bed1", "bath", 50, "adjacent"),
                  Edge("bed2", "bath", 50, "adjacent"),
                  Edge("kitchen", "bath", 20, "separate") >>]

buildPresetStateByRoomType(roomType) ==
    LET formData == getDefaultSpecByRoomType(roomType)
    IN  [formData |-> formData, spec |-> formDataToSpec(formData)]

---------------------------------------------------------------------------
(* Bounds of the model *)

\* hand edits applied to a spec before it is pruned
MaxHandEdits == 2
\* node areas tried: 0, 0.1, ..., MaxTenths / 10 m2 and 0, 1, ..., MaxWhole m2
MaxTenths == 30
MaxWhole == 200
\* ticks of the negative-relation force
MaxForceTicks == 2
\* hand edits applied to a spec before it is encoded
MaxAuthorEdits == 1
\* room edits made in the editor of the running application
MaxAppEdits == 1
\* simulation ticks of the running application
MaxAppTicks == 1
\* user and observer events (resizes, spec changes, preset loads, resets)
\* of one run of the fit timers
MaxFitEvents == 3

\* entered areas tried in a form slot: 0, EditStep, ..., MaxEditIdx * EditStep m2
MaxEditIdx == 3
\* longest room list handed to the area-budget scaling
MaxScaleRooms == 3

---------------------------------------------------------------------------
(* Specification SpecGen: formDataToSpec applied to one FormData *)

NoSpec == [meta |-> None, spaces |-> <<>>, edges |-> <<>>]

AreaSlots ==
    {"masterBedroom", "secondBedroom", "secondBedroom2", "secondBedroom3", "livingRoom",
     "diningRoom", "kitchen", "bathroom", "balcony", "entryway"}

EditChoices == {M2(20 * k) : k \in 0..MaxEditIdx}

Conditions ==
    [scenicView : BOOLEAN, noiseControl : BOOLEAN, ventilation : BOOLEAN]

\* the default areas of some room count with one slot overwritten by the user
GenForms ==
    {[roomType |-> rt,
      areas |-> [getDefaultSpecByRoomType(d).areas EXCEPT ![slot] = v],
      conditions |-> c] :
        rt \in RoomTypes, d \in RoomTypes, slot \in AreaSlots, v \in EditChoices,
        c \in Conditions}

GenIdle == genPhase = "idle" /\ genForm = getDefaultSpecByRoomType(2) /\ genSpec = NoSpec

GenInit == genPhase = "form" /\ genForm \in GenForms /\ genSpec = NoSpec

Generate ==
    /\ genPhase = "form"
    /\ genSpec' = formDataToSpec(genForm)
    /\ genPhase' = "spec"
    /\ UNCHANGED <<genForm, scVars, prVars, rdVars, fVars, cdVars, appVars, ftVars, gdVars>>

---------------------------------------------------------------------------
(* Specification SpecScale: scaleRoomAreasToUnitTarget applied to one list *)

MkSpace(id, area, lo, hi) ==
    [id |-> id, name |-> None, area_target |-> area, zone |-> "public",
     areaMin |-> lo, areaMax |-> hi, tags |-> None, meta |-> None,
     relations |-> EmptyRelations]

ScaleAreas == {M2(1), M2(10), M2(40)}
ScaleBounds == {<<None, None>>, <<Some(M2(20)), None>>, <<None, Some(M2(5))>>}
ScaleTargets == {0, M2(35), M2(150)}
ScaleRatios == {-10, 0, 4, 5, 15, 50}

ScaleRoomLists ==
    UNION {[1..n -> {MkSpace("room", a, b[1], b[2]) : a \in ScaleAreas, b \in ScaleBounds}] :
             n \in 1..MaxScaleRooms}

NoScaleIn == [spaces |-> <<>>, unitTargetAreaM2 |-> 0, allowanceRatio |-> 0]
NoScaleOut == [spaces |-> <<>>, roomsSum |-> 0, overBudget |-> FALSE, passes |-> 0]

ScaleIdle == scPhase = "idle" /\ scIn = NoScaleIn /\ scOut = NoScaleOut

ScaleInit ==
    /\ scPhase = "in"
    /\ scIn \in [spaces : ScaleRoomLists, unitTargetAreaM2 : ScaleTargets,
                 allowanceRatio : ScaleRatios]
    /\ scOut = NoScaleOut

Scale ==
    /\ scPhase = "in"
    /\ scOut' = scaleRoomAreasToUnitTarget(scIn.spaces, scIn.unitTargetAreaM2, scIn.allowanceRatio)
    /\ scPhase' = "done"
    /\ UNCHANGED <<scIn, genVars, prVars, rdVars, fVars, cdVars, appVars, ftVars, gdVars>>

---------------------------------------------------------------------------
(* Specification SpecPrune: a generated or built-in spec is edited by hand  *)
(* (the schema does not check references, so rooms may be missing and edges  *)
(* and relations may name any id) and then pruned to a room count.           *)

BaseSpecs ==
    {buildPresetStateByRoomType(n).spec : n \in RoomTypes} \cup {twoRoomStandardPreset, sampleSpec}

RemovableIds == {"kitchen", "bed1", "bed3", "unit"}
EdgeSources == {"living", "bed3"}
EdgeTargets == {"bed4", "garage", "unit"}
RelationOwners == {"living", "bed3"}
RelationTargets == {"kitchen", "bed4", "garage"}

RemoveSpace(spec, id) ==
    [spec EXCEPT !.spaces = SelectSeq(spec.spaces, LAMBDA sp : sp.id # id)]

AddEdge(spec, s, t) ==
    [spec EXCEPT !.edges = Append(spec.edges, Edge(s, t, 100, "adjacent"))]

AddRelation(spec, owner, kind, t) ==
    [spec EXCEPT !.spaces =
        [i \in 1..Len(spec.spaces) |->
            IF spec.spaces[i].id = owner
            THEN [spec.spaces[i] EXCEPT !.relations[kind] = Append(@, t)]
            ELSE spec.spaces[i]]]

HandEdits(spec) ==
    {RemoveSpace(spec, id) : id \in RemovableIds}
    \cup {AddEdge(spec, s, t) : s \in EdgeSources, t \in EdgeTargets}
    \cup {AddRelation(spec, o, k, t) :
            o \in RelationOwners, k \in {"positive", "negative"}, t \in RelationTargets}

PruneIdle ==
    /\ prPhase = "idle" /\ prSpec = NoSpec /\ prEdits = 0 /\ prRoomType = 1 /\ prOut = NoSpec

PruneInit ==
    /\ prPhase = "edit" /\ prSpec \in BaseSpecs /\ prEdits = 0 /\ prRoomType = 1
    /\ prOut = NoSpec

HandEdit ==
    /\ prPhase = "edit" /\ prEdits < MaxHandEdits
    /\ prSpec' \in HandEdits(prSpec) \ {prSpec}
    /\ prEdits' = prEdits + 1
    /\ UNCHANGED <<prPhase, prRoomType, prOut, genVars, scVars, rdVars, fVars, cdVars, appVars, ftVars, gdVars>>

Prune ==
    /\ prPhase = "edit"
    /\ \E rt \in RoomTypes :
          /\ prRoomType' = rt
          /\ prOut' = pruneSpecToRoomType(prSpec, rt)
    /\ prPhase' = "pruned"
    /\ UNCHANGED <<prSpec, prEdits, genVars, scVars, rdVars, fVars, cdVars, appVars, ftVars, gdVars>>

---------------------------------------------------------------------------
(* Specification SpecRadius: the area of one node is edited, its radius is  *)
(* what getNodeRadius gives for rendering and collision.                     *)

RadiusAreas == {10 * k : k \in 0..MaxTenths} \cup {M2(k) : k \in 0..MaxWhole}

RadiusIdle == rdArea = 0 /\ rdRadius = 0

RadiusInit == rdArea = M2(25) /\ rdRadius = getNodeRadius(M2(25))

SetArea ==
    /\ \E a \in RadiusAreas :
          /\ rdArea' = a
          /\ rdRadius' = getNodeRadius(a)
    /\ UNCHANGED <<genVars, scVars, prVars, fVars, cdVars, appVars, ftVars, gdVars>>

---------------------------------------------------------------------------
(* Specification SpecForce: the engine holds three nodes, the force is      *)
(* created for a pair list, initialized by the engine with its nodes and     *)
(* then called once per tick.                                                *)

NodeIds == {"a", "b", "c"}

\* (100, 240) is at distance exactly 260 from the origin
Positions == {<<0, 0>>, <<100, 0>>, <<100, 240>>, <<0, -259>>, <<260, 0>>, <<-300, 300>>}

Pair(s, t) == [source |-> s, target |-> t]

PairLists ==
    { <<Pair("a", "b")>>, <<Pair("b", "a")>>, <<Pair("a", "b"), Pair("b", "c")>>,
      <<Pair("a", "c"), Pair("a", "ghost")>>, <<Pair("a", "b"), Pair("b", "a"), Pair("c", "a")>> }

Alphas == {1000, 228, 1}

Velocities(nodes) == [n \in DOMAIN nodes |-> <<nodes[n].vx, nodes[n].vy>>]

ForceIdle ==
    /\ fNodes = [n \in {} |-> 0] /\ fPairs = <<>> /\ fNodeById = {} /\ fPrev = <<>>
    /\ fContrib = <<>> /\ fTicks = 0

ForceInit ==
    /\ \E pos \in [NodeIds -> Positions] :
          fNodes = [n \in NodeIds |-> [id |-> n, x |-> pos[n][1], y |-> pos[n][2], vx |-> 0, vy |-> 0]]
    /\ fPairs \in PairLists
    /\ fNodeById = {}
    /\ fPrev = <<>> /\ fContrib = <<>> /\ fTicks = 0

\* force.initialize(nodes), called by the engine when the force is installed
Initialize ==
    /\ fNodes # <<>> /\ fNodeById = {}
    /\ fNodeById' = {fNodes[n].id : n \in DOMAIN fNodes}
    /\ UNCHANGED <<fNodes, fPairs, fPrev, fContrib, fTicks, genVars, scVars, prVars, rdVars, cdVars, appVars, ftVars, gdVars>>

\* force(alpha), called by the engine once per tick
ForceTick ==
    /\ fNodeById # {} /\ fTicks < MaxForceTicks
    /\ \E alpha \in Alphas :
          /\ fNodes' = negativeForce(fNodes, fNodeById, fPairs, alpha)
          /\ fContrib' = [i \in 1..Len(fPairs) |-> pairContribution(fNodes, fNodeById, fPairs[i], alpha)]
    /\ fPrev' = Velocities(fNodes)
    /\ fTicks' = fTicks + 1
    /\ UNCHANGED <<fPairs, fNodeById, genVars, scVars, prVars, rdVars, cdVars, appVars, ftVars, gdVars>>

---------------------------------------------------------------------------
(* Specification SpecCodec: a built-in or generated spec, possibly edited   *)
(* by hand, is encoded into a token and the token is decoded.               *)

RawBaseSpecs == {RawOfSpec(spec) : spec \in BaseSpecs}

MetaValues == {JsNumber(5), JsNull, JsNaN, JsInfinity}

EditSpace1(raw, F(_)) ==
    [raw EXCEPT !.spaces = Some([Get(raw.spaces) EXCEPT ![1] = F(@)])]

EditEdge1(raw, F(_)) ==
    [raw EXCEPT !.edges = Some([Get(raw.edges) EXCEPT ![1] = F(@)])]

\* One hand edit: the raw spec it gives, the path of the field it writes and
\* whether what it writes breaks the schema there.
AuthorEdit(raw, path, breaks) == [raw |-> raw, path |-> path, breaks |-> breaks]

SpaceEdits(raw) ==
    IF raw.spaces = None THEN {}
    ELSE
      { AuthorEdit(EditSpace1(raw, LAMBDA sp : [sp EXCEPT !.name = None]), <<"spaces", 0, "name">>, FALSE),
        AuthorEdit(EditSpace1(raw, LAMBDA sp : [sp EXCEPT !.tags = None]), <<"spaces", 0, "tags">>, FALSE),
        AuthorEdit(EditSpace1(raw, LAMBDA sp : [sp EXCEPT !.relations = None]),
                   <<"spaces", 0, "relations">>, FALSE),
        AuthorEdit(EditSpace1(raw, LAMBDA sp : [sp EXCEPT !.relations =
                        Some([positive |-> None, negative |-> Some(<<"bath">>)])]),
                   <<"spaces", 0, "relations">>, FALSE),
        AuthorEdit(EditSpace1(raw, LAMBDA sp : [sp EXCEPT !.relations =
                        Some([positive |-> Some(<<"garage">>), negative |-> None])]),
                   <<"spaces", 0, "relations">>, FALSE),
        AuthorEdit(EditSpace1(raw, LAMBDA sp : [sp EXCEPT !.area_target = Some(0)]),
                   <<"spaces", 0, "area_target">>, FALSE),
        AuthorEdit(EditSpace1(raw, LAMBDA sp : [sp EXCEPT !.area_target = Some(-1)]),
                   <<"spaces", 0, "area_target">>, TRUE),
        AuthorEdit(EditSpace1(raw, LAMBDA sp : [sp EXCEPT !.area_target = None]),
                   <<"spaces", 0, "area_target">>, TRUE),
        AuthorEdit(EditSpace1(raw, LAMBDA sp : [sp EXCEPT !.areaMin = Some(M2(2))]),
                   <<"spaces", 0, "areaMin">>, FALSE),
        AuthorEdit(EditSpace1(raw, LAMBDA sp : [sp EXCEPT !.areaMax = Some(-1)]),
                   <<"spaces", 0, "areaMax">>, TRUE),
        AuthorEdit(EditSpace1(raw, LAMBDA sp : [sp EXCEPT !.zone = Some("garden")]),
                   <<"spaces", 0, "zone">>, TRUE),
        AuthorEdit(EditSpace1(raw, LAMBDA sp : [sp EXCEPT !.id = None]), <<"spaces", 0, "id">>, TRUE) }
      \cup {AuthorEdit(EditSpace1(raw, LAMBDA sp : [sp EXCEPT !.meta = Some([note |-> v])]),
                       <<"spaces", 0, "meta">>, FALSE) : v \in MetaValues}

EdgeEdits(raw) ==
    IF raw.edges = None THEN {}
    ELSE
      { AuthorEdit(EditEdge1(raw, LAMBDA e : [e EXCEPT !.weight = None]), <<"edges", 0, "weight">>, FALSE),
        AuthorEdit(EditEdge1(raw, LAMBDA e : [e EXCEPT !.weight = Some(-50)]), <<"edges", 0, "weight">>, TRUE),
        AuthorEdit(EditEdge1(raw, LAMBDA e : [e EXCEPT !.type = None]), <<"edges", 0, "type">>, FALSE),
        AuthorEdit(EditEdge1(raw, LAMBDA e : [e EXCEPT !.type = Some("beside")]), <<"edges", 0, "type">>, TRUE),
        AuthorEdit(EditEdge1(raw, LAMBDA e : [e EXCEPT !.target = Some("garage")]),
                   <<"edges", 0, "target">>, FALSE),
        AuthorEdit(EditEdge1(raw, LAMBDA e : [e EXCEPT !.source = None]), <<"edges", 0, "source">>, TRUE) }
      \cup {AuthorEdit(EditEdge1(raw, LAMBDA e : [e EXCEPT !.meta = Some([note |-> v])]),
                       <<"edges", 0, "meta">>, FALSE) : v \in MetaValues}

\* what a hand can do to the JSON of a spec: leave fields out, give a room
\* bounds or an area of 0, name rooms that do not exist, fill an opaque meta
\* record, break the schema
AuthorEdits(raw) ==
    { AuthorEdit([raw EXCEPT !.meta = None], <<"meta">>, FALSE),
      AuthorEdit([raw EXCEPT !.edges = None], <<"edges">>, FALSE),
      AuthorEdit([raw EXCEPT !.spaces = None], <<"spaces">>, TRUE) }
    \cup SpaceEdits(raw) \cup EdgeEdits(raw)

\* path p is the field written at path q or lies inside it
Within(p, q) == Len(q) <= Len(p) /\ \A i \in 1..Len(q) : p[i] = q[i]

\* what a token becomes when it is damaged on its way, named by what the
\* library makes of it; a compressed text that is no JSON; a compressed JSON
\* object that is no spec
TamperedTokens ==
    { [corrupt |-> "null"], [corrupt |-> "empty"], [corrupt |-> "garbage"],
      [lz |-> [text |-> "{"]],
      [lz |-> [json |-> [meta |-> None, spaces |-> None, edges |-> None]]] }

NoToken == [none |-> TRUE]
NoResult == Failure("", {})

CodecIdle ==
    /\ cdPhase = "idle" /\ cdSpec = RawOfSpec(NoSpec) /\ cdEdits = 0 /\ cdBroken = {}
    /\ cdToken = NoToken /\ cdResult = NoResult

CodecInit ==
    /\ cdPhase = "spec" /\ cdSpec \in RawBaseSpecs /\ cdEdits = 0 /\ cdBroken = {}
    /\ cdToken = NoToken /\ cdResult = NoResult

\* cdBroken keeps the paths of the fields the edits left in breach of the schema
Author ==
    /\ cdPhase = "spec" /\ cdEdits < MaxAuthorEdits
    /\ \E e \in AuthorEdits(cdSpec) :
          /\ e.raw # cdSpec
          /\ cdSpec' = e.raw
          /\ cdBroken' = {p \in cdBroken : ~Within(p, e.path)}
                            \cup (IF e.breaks THEN {e.path} ELSE {})
    /\ cdEdits' = cdEdits + 1
    /\ UNCHANGED <<cdPhase, cdToken, cdResult, genVars, scVars, prVars, rdVars, fVars, appVars, ftVars, gdVars>>

\* validateSpec(obj) on the authored object
Validate ==
    /\ cdPhase = "spec"
    /\ cdResult' = validateSpec(cdSpec)
    /\ cdPhase' = "validated"
    /\ UNCHANGED <<cdSpec, cdEdits, cdBroken, cdToken, genVars, scVars, prVars, rdVars, fVars,
                   appVars, ftVars, gdVars>>

Encode ==
    /\ cdPhase = "spec"
    /\ cdToken' = encodeSpecToQuery(cdSpec)
    /\ cdPhase' = "token"
    /\ UNCHANGED <<cdSpec, cdEdits, cdBroken, cdResult, genVars, scVars, prVars, rdVars, fVars,
                   appVars, ftVars, gdVars>>

\* the link is damaged before it is opened
Tamper ==
    /\ cdPhase = "token" /\ cdToken \notin TamperedTokens
    /\ cdToken' \in TamperedTokens
    /\ UNCHANGED <<cdPhase, cdSpec, cdEdits, cdBroken, cdResult, genVars, scVars, prVars, rdVars,
                   fVars, appVars, ftVars, gdVars>>

Decode ==
    /\ cdPhase = "token"
    /\ cdResult' = decodeSpecFromQuery(cdToken)
    /\ cdPhase' = "decoded"
    /\ UNCHANGED <<cdSpec, cdEdits, cdBroken, cdToken, genVars, scVars, prVars, rdVars, fVars,
                   appVars, ftVars, gdVars>>

---------------------------------------------------------------------------
(* The App component: state, derived forces and the render commit           *)

specToFormData(spec) ==
    LET spaces == spec.spaces
        ids == {spaces[i].id : i \in 1..Len(spaces)}
        \* Object.fromEntries: the last space of an id wins
        areaOf(id) ==
            LET last == CHOOSE i \in 1..Len(spaces) :
                            spaces[i].id = id /\ \A j \in (i + 1)..Len(spaces) : spaces[j].id # id
            IN  spaces[last].area_target
        detected == {rt \in RoomTypes : SlotIds(rt) \subseteq ids}
        roomType == IF detected = {} THEN 2
                    ELSE CHOOSE rt \in detected : \A other \in detected : rt <= other
        defaults == getDefaultSpecByRoomType(roomType)
        pick(id, slot) == IF id \in ids THEN areaOf(id) ELSE defaults.areas[slot]
        external == IF spec.meta = None THEN None ELSE Get(spec.meta).external
        flag(name) == IF external = None THEN FALSE
                      ELSE IF Get(external)[name] = None THEN FALSE
                      ELSE Get(Get(external)[name])
    IN  [roomType |-> roomType,
         areas |-> [masterBedroom |-> pick("bed1", "masterBedroom"),
                    secondBedroom |-> pick("bed2", "secondBedroom"),
                    secondBedroom2 |-> pick("bed3", "secondBedroom2"),
                    secondBedroom3 |-> pick("bed4", "secondBedroom3"),
                    livingRoom |-> pick("living", "livingRoom"),
                    diningRoom |-> pick("dining", "diningRoom"),
                    kitchen |-> pick("kitchen", "kitchen"),
                    bathroom |-> pick("bath", "bathroom"),
                    balcony |-> pick("balcony", "balcony"),
                    entryway |-> pick("entryway", "entryway")],
         conditions |-> [scenicView |-> flag("scenicView"),
                         noiseControl |-> flag("noiseControl"),
                         ventilation |-> flag("ventilation")]]

COLLISION_PADDING == 8
COLLISION_ITERATIONS == 4
POS_LINK_DISTANCE == 90
\* 0.9, in 1/1000
POS_LINK_STRENGTH == 900

RECURSIVE Flatten(_)
Flatten(ss) == IF ss = <<>> THEN <<>> ELSE Head(ss) \o Flatten(Tail(ss))

\* the relation pairs of one space: empty ids and the space itself are skipped
pairsOfSpace(sp, kind) ==
    LET RECURSIVE Walk(_)
        Walk(tids) ==
            IF tids = <<>> THEN <<>>
            ELSE IF Head(tids) # "" /\ Head(tids) # sp.id
                 THEN <<Pair(sp.id, Head(tids))>> \o Walk(Tail(tids))
                 ELSE Walk(Tail(tids))
    IN  Walk(sp.relations[kind])

positivePairs(spec) == Flatten(MapSeq(spec.spaces, LAMBDA sp : pairsOfSpace(sp, "positive")))
negativePairs(spec) == Flatten(MapSeq(spec.spaces, LAMBDA sp : pairsOfSpace(sp, "negative")))

\* the engine of a freshly mounted ForceGraph2D: none of the three named forces
EngineFresh == [collide |-> None, relationsLink |-> None, negRelations |-> None]

\* forceLink resolves the ids of its links when the simulation takes the
\* force: d3Force('relationsLink', relLinkForce) throws when an id is not the
\* id of a node, and returns normally when each is
linkResolves(pairs, spec) ==
    LET nodeIds == {spec.spaces[i].id : i \in 1..Len(spec.spaces)}
    IN  \A p \in Range(pairs) : p.source \in nodeIds /\ p.target \in nodeIds

\* The body of the force-installation effect once fgRef.current is set, on
\* the engine it finds.  An exception of d3Force leaves the try block: the
\* force being set and the statements after it have no effect.
installForces(spec, engine) ==
    LET collided == [engine EXCEPT !.collide =
                        Some([padding |-> COLLISION_PADDING, iterations |-> COLLISION_ITERATIONS])]
        negative(e) ==
            [e EXCEPT !.negRelations =
                IF Len(negativePairs(spec)) > 0
                THEN Some([pairs |-> negativePairs(spec), distance |-> NEGATIVE_DESIRED_DISTANCE,
                           strength |-> NEGATIVE_STRENGTH])
                ELSE None]
    IN  IF Len(positivePairs(spec)) > 0
        THEN IF linkResolves(positivePairs(spec), spec)
             THEN negative([collided EXCEPT !.relationsLink =
                                Some([pairs |-> positivePairs(spec), distance |-> POS_LINK_DISTANCE,
                                      strength |-> POS_LINK_STRENGTH])])
             ELSE collided
        ELSE negative([collided EXCEPT !.relationsLink = None])

\* ForceGraph2D is rendered only in a container of positive width and height
graphShown(dims) == dims.width > 0 /\ dims.height > 0

\* One render commit and its effects.  fgRef.current is the engine of the
\* rendered ForceGraph2D (a new one when the graph was not rendered before),
\* null when the graph is not rendered; the force-installation effect runs
\* when the spec object changed, and returns at once while fgRef.current is null.
commit(specChanged, spec, dims, engine) ==
    LET fgRef == IF ~graphShown(dims) THEN None
                 ELSE IF engine = None THEN Some(EngineFresh) ELSE engine
    IN  IF specChanged /\ fgRef # None THEN Some(installForces(spec, Get(fgRef))) ELSE fgRef

parseRoomType(str) ==
    CASE str = "1" -> 1 [] str = "2" -> 2 [] str = "3" -> 3 [] str = "4" -> 4 [] OTHER -> 0

---------------------------------------------------------------------------
(* Specification SpecApp: the application is opened with a query string,    *)
(* its container is measured and resized, presets are loaded, rooms are     *)
(* edited and the simulation ticks.                                         *)

Rects == {[width |-> 0, height |-> 0], [width |-> 150, height |-> 150],
          [width |-> 800, height |-> 600]}

\* the container before it is laid out, and laid out
AppRects == {[width |-> 0, height |-> 0], [width |-> 800, height |-> 600]}

ValidToken == encodeSpecToQuery(RawOfSpec(sampleSpec))

\* a spec whose living room names, as a positive relation, a room that is not
\* among its spaces
DanglingSpec ==
    [sampleSpec EXCEPT !.spaces[1].relations =
        [positive |-> <<"garage">>, negative |-> <<"kitchen">>]]

DanglingToken == encodeSpecToQuery(RawOfSpec(DanglingSpec))

\* a spec that passes the schema with two spaces of the id 'living', the first
\* of them naming itself as a positive relation
UncheckedSpec ==
    [sampleSpec EXCEPT !.spaces[1].relations = [positive |-> <<"living", "bed1">>, negative |-> <<>>],
                       !.spaces[5].id = "living"]

UncheckedToken == encodeSpecToQuery(RawOfSpec(UncheckedSpec))

SharedTokens ==
    { ValidToken, DanglingToken, UncheckedToken,
      encodeSpecToQuery(EditSpace1(RawOfSpec(sampleSpec), LAMBDA sp : [sp EXCEPT !.area_target = Some(-1)])),
      [lz |-> [text |-> "{"]],
      [garbage |-> TRUE] }

Query(rt, roomType, s) == [rt |-> rt, roomType |-> roomType, s |-> s]

\* the query strings the application is opened with
Queries ==
    { Query(None, None, None), Query(Some("1"), None, None), Query(Some("7"), None, None),
      Query(Some(""), Some("3"), None), Query(None, Some("4"), Some(ValidToken)),
      Query(None, None, Some(ValidToken)) }
    \cup {Query(Some("1"), None, Some(t)) : t \in SharedTokens \ {ValidToken}}
    \cup {Query(Some("7"), None, Some([garbage |-> TRUE]))}

EditedIds == {"living"}
\* what the user leaves in the area input: nothing, or a number typed in
EditedAreas == {"", "-5"}
Selections == {<<>>, <<"bed1", "bath">>}

AppIdle ==
    /\ appPhase = "idle" /\ appQuery = [rt |-> None, roomType |-> None, s |-> None]
    /\ appSpec = NoSpec /\ appFormData = getDefaultSpecByRoomType(2) /\ appRoomType = 2
    /\ appDims = [width |-> 0, height |-> 0] /\ appEngine = None /\ appEdits = 0
    /\ appTicks = 0 /\ appTickForces = EngineFresh

\* the useState initial values, before the first commit
AppInit ==
    /\ appPhase = "unmounted" /\ appQuery \in Queries
    /\ appSpec = twoRoomStandardPreset
    /\ appFormData = specToFormData(twoRoomStandardPreset)
    /\ appRoomType = specToFormData(twoRoomStandardPreset).roomType
    /\ appDims = [width |-> 0, height |-> 0] /\ appEngine = None /\ appEdits = 0
    /\ appTicks = 0 /\ appTickForces = EngineFresh

\* the decoded spec is set first and the preset of rt / roomType last
mountEffect_presetLast(query, spec, formData, roomType) ==
    LET rtParam == IF IsSome(query.rt) /\ Get(query.rt) # "" THEN query.rt ELSE query.roomType
        rtOk == IsSome(rtParam) /\ Get(rtParam) \in {"1", "2", "3", "4"}
        rt == parseRoomType(Get(rtParam))
        df == generateSpecByRoomType(rt)
        res == decodeSpecFromQuery(Get(query.s))
        sOk == IsSome(query.s) /\ res.success
    IN  [roomType |-> IF rtOk THEN rt ELSE roomType,
         formData |-> IF rtOk THEN df ELSE IF sOk THEN specToFormData(res.data) ELSE formData,
         spec |-> IF rtOk THEN formDataToSpec(df) ELSE IF sOk THEN res.data ELSE spec,
         specSet |-> (sOk \/ rtOk)]

\* The mount effect on the query string: rt (or roomType when rt is absent or
\* empty) loads a preset when it is one of "1".."4"; then s, when it decodes,
\* replaces spec and formData.  specSet: setSpec was called.
mountEffect(query, spec, formData, roomType) ==
    LET rtParam == IF IsSome(query.rt) /\ Get(query.rt) # "" THEN query.rt ELSE query.roomType
        rtOk == IsSome(rtParam) /\ Get(rtParam) \in {"1", "2", "3", "4"}
        rt == parseRoomType(Get(rtParam))
        df == generateSpecByRoomType(rt)
        res == decodeSpecFromQuery(Get(query.s))
        sOk == IsSome(query.s) /\ res.success
    IN  [roomType |-> IF rtOk THEN rt ELSE roomType,
         formData |-> IF sOk THEN specToFormData(res.data) ELSE IF rtOk THEN df ELSE formData,
         spec |-> IF sOk THEN res.data ELSE IF rtOk THEN formDataToSpec(df) ELSE spec,
         specSet |-> (sOk \/ rtOk)]

\* the first commit (no graph yet, so the force effect returns), its mount
\* effect and first measurement, and the commit their state updates cause
Mount ==
    \E rect \in AppRects :
        LET next == mountEffect(appQuery, appSpec, appFormData, appRoomType)
        IN  /\ appPhase = "unmounted"
            /\ appPhase' = "running"
            /\ appRoomType' = next.roomType
            /\ appFormData' = next.formData
            /\ appSpec' = next.spec
            /\ appDims' = rect
            /\ appEngine' = commit(next.specSet, next.spec, rect, None)
            /\ UNCHANGED <<appQuery, appEdits, appTicks, appTickForces,
                           genVars, scVars, prVars, rdVars, fVars, cdVars, ftVars, gdVars>>

\* the ResizeObserver callback
Resize(rect) ==
    /\ appPhase = "running" /\ rect # appDims
    /\ appDims' = rect
    /\ appEngine' = commit(FALSE, appSpec, rect, appEngine)
    /\ UNCHANGED <<appPhase, appQuery, appSpec, appFormData, appRoomType, appEdits, appTicks,
                   appTickForces, genVars, scVars, prVars, rdVars, fVars, cdVars, ftVars, gdVars>>

loadPresetByRoomType(rt) ==
    LET df == generateSpecByRoomType(rt)
    IN  /\ appPhase = "running"
        /\ appRoomType' = rt
        /\ appFormData' = df
        /\ appSpec' = formDataToSpec(df)
        /\ appEngine' = commit(TRUE, formDataToSpec(df), appDims, appEngine)
        /\ UNCHANGED <<appPhase, appQuery, appDims, appEdits, appTicks, appTickForces, genVars, scVars, prVars, rdVars, fVars, cdVars, ftVars, gdVars>>

SpaceIds(spec) == {spec.spaces[i].id : i \in 1..Len(spec.spaces)}

\* parseFloat(e.target.value) || 0 on the text of the number input, in 1/100:
\* the empty text (also given for text that is no number) parses to NaN
parseAreaInput(text) ==
    CASE text = "" -> 0
      [] text = "0" -> 0
      [] text = "12.5" -> 1250
      [] text = "-5" -> -500

\* the area input of the card of space id, holding text
EditArea(id, text) ==
    LET val == parseAreaInput(text)
        spec1 == [appSpec EXCEPT !.spaces =
                    MapSeq(@, LAMBDA sp : IF sp.id = id THEN [sp EXCEPT !.area_target = val] ELSE sp)]
    IN  /\ appPhase = "running" /\ appEdits < MaxAppEdits
        /\ id \in SpaceIds(appSpec)
        /\ appSpec' = spec1
        /\ appEdits' = appEdits + 1
        /\ appEngine' = commit(TRUE, spec1, appDims, appEngine)
        /\ UNCHANGED <<appPhase, appQuery, appFormData, appRoomType, appDims, appTicks,
                       appTickForces, genVars, scVars, prVars, rdVars, fVars, cdVars, ftVars, gdVars>>

\* the positive or negative relation select of the card of space id
EditRelations(id, kind, selected) ==
    LET spec1 == [appSpec EXCEPT !.spaces =
                    MapSeq(@, LAMBDA sp : IF sp.id = id
                                          THEN [sp EXCEPT !.relations[kind] = selected] ELSE sp)]
    IN  /\ appPhase = "running" /\ appEdits < MaxAppEdits
        /\ id \in SpaceIds(appSpec)
        /\ Range(selected) \subseteq SpaceIds(appSpec) \ {id}
        /\ appSpec' = spec1
        /\ appEdits' = appEdits + 1
        /\ appEngine' = commit(TRUE, spec1, appDims, appEngine)
        /\ UNCHANGED <<appPhase, appQuery, appFormData, appRoomType, appDims, appTicks,
                       appTickForces, genVars, scVars, prVars, rdVars, fVars, cdVars, ftVars, gdVars>>

\* one tick of the simulation of the mounted engine, with the forces it holds
Tick ==
    /\ appPhase = "running" /\ appEngine # None /\ appTicks < MaxAppTicks
    /\ appTicks' = appTicks + 1
    /\ appTickForces' = Get(appEngine)
    /\ UNCHANGED <<appPhase, appQuery, appSpec, appFormData, appRoomType, appDims, appEngine,
                   appEdits, genVars, scVars, prVars, rdVars, fVars, cdVars, ftVars, gdVars>>

---------------------------------------------------------------------------
(* Specification SpecFit: the fit-to-view requests of the App component.    *)
(*                                                                          *)
(* The same handlers as in SpecApp, seen from the timers they start.  A     *)
(* pending callback is [kind, width, height]: who scheduled it and the      *)
(* containerDimensions its fitGraph closure captured (the state of the      *)
(* render that created the closure).  Pending callbacks form a bag; delays  *)
(* are not modelled, any pending callback may be the next to run.           *)

\* w > 200 && h > 200 of fitGraph
FitThreshold == 200

ZeroRect == [width |-> 0, height |-> 0]

Timer(kind, dims) == [kind |-> kind, width |-> dims.width, height |-> dims.height]

schedule(timers, t) == timers (+) SetToBag({t})

\* window.clearTimeout on the timer a ref holds
clearKind(timers, kind) == [t \in {u \in DOMAIN timers : u.kind # kind} |-> timers[t]]

pending(timers, kinds) ==
    BagCardinality([t \in {u \in DOMAIN timers : u.kind \in kinds} |-> timers[t]])

\* fgRef.current is set while the component is mounted and ForceGraph2D is rendered
fgRefSet(phase, dims) == phase = "running" /\ graphShown(dims)

\* the guard of fitGraph: fgRef.current && w > 200 && h > 200, with the w and
\* h of the closure
fitGraph(fg, w, h) == fg /\ w > FitThreshold /\ h > FitThreshold

\* the spec-change fit effect (50 ms, never cancelled) and the graphData
\* debounce effect (100 ms, the pending one cancelled first) of a commit
\* whose spec changed, in that order
specChangeEffects(timers, dims) ==
    LET t1 == IF graphShown(dims) THEN schedule(timers, Timer("spec", dims)) ELSE timers
    IN  schedule(clearKind(t1, "graph"), Timer("graph", dims))

\* resetLayout: inside if (fgRef.current), setTimeout(() => fitGraph(), 200)
resetLayout(timers, dims) ==
    IF graphShown(dims) THEN schedule(timers, Timer("reset", dims)) ELSE timers

FitIdle ==
    /\ ftPhase = "idle" /\ ftDims = ZeroRect /\ ftTimers = EmptyBag /\ ftEvents = 0
    /\ ftFitted = FALSE /\ ftFitDims = ZeroRect

FitInit ==
    /\ ftPhase = "unmounted" /\ ftDims = ZeroRect /\ ftTimers = EmptyBag /\ ftEvents = 0
    /\ ftFitted = FALSE /\ ftFitDims = ZeroRect

\* The first commit: the mount effect starts its 100 ms fit, the graphData
\* effect its debounce, both with the closure of the first render (0 x 0); the
\* resize effect measures the container.  When the query string sets a spec,
\* the commit that follows runs the two spec-change effects.
FitMount(rect, specSet) ==
    LET first == schedule(schedule(EmptyBag, Timer("mount", ZeroRect)), Timer("graph", ZeroRect))
    IN  /\ ftPhase = "unmounted"
        /\ ftPhase' = "running"
        /\ ftDims' = rect
        /\ ftTimers' = IF specSet THEN specChangeEffects(first, rect) ELSE first
        /\ UNCHANGED <<ftEvents, ftFitted, ftFitDims,
                       genVars, scVars, prVars, rdVars, fVars, cdVars, appVars, gdVars>>

\* the ResizeObserver callback: its fitGraph is the one of the first render,
\* the effect having no dependencies
FitResize(rect) ==
    /\ ftPhase = "running" /\ ftEvents < MaxFitEvents /\ rect # ftDims
    /\ ftEvents' = ftEvents + 1
    /\ ftDims' = rect
    /\ ftTimers' = schedule(clearKind(ftTimers, "resize"), Timer("resize", ZeroRect))
    /\ UNCHANGED <<ftPhase, ftFitted, ftFitDims,
                   genVars, scVars, prVars, rdVars, fVars, cdVars, appVars, gdVars>>

\* a room edit: setSpec and the commit it causes
FitSpecChange ==
    /\ ftPhase = "running" /\ ftEvents < MaxFitEvents
    /\ ftEvents' = ftEvents + 1
    /\ ftTimers' = specChangeEffects(ftTimers, ftDims)
    /\ UNCHANGED <<ftPhase, ftDims, ftFitted, ftFitDims,
                   genVars, scVars, prVars, rdVars, fVars, cdVars, appVars, gdVars>>

\* loadPresetByRoomType: resetLayout, the 0 ms reheat timer, then the commit
\* of the new spec
FitLoadPreset ==
    /\ ftPhase = "running" /\ ftEvents < MaxFitEvents
    /\ ftEvents' = ftEvents + 1
    /\ ftTimers' = specChangeEffects(
                      schedule(resetLayout(ftTimers, ftDims), Timer("reheat", ftDims)), ftDims)
    /\ UNCHANGED <<ftPhase, ftDims, ftFitted, ftFitDims,
                   genVars, scVars, prVars, rdVars, fVars, cdVars, appVars, gdVars>>

\* the Reset Layout button
FitResetLayout ==
    /\ ftPhase = "running" /\ ftEvents < MaxFitEvents /\ graphShown(ftDims)
    /\ ftEvents' = ftEvents + 1
    /\ ftTimers' = resetLayout(ftTimers, ftDims)
    /\ UNCHANGED <<ftPhase, ftDims, ftFitted, ftFitDims,
                   genVars, scVars, prVars, rdVars, fVars, cdVars, appVars, gdVars>>

\* A pending callback runs.  The fit timers call fitGraph of their closure;
\* the reheat timer requests an animation frame, whose callback calls
\* zoomToFit(350, 60) whenever fgRef.current is set.
FitFire(t) ==
    LET rest == ftTimers (-) SetToBag({t})
        fg == fgRefSet(ftPhase, ftDims)
        zoom == IF t.kind = "frame" THEN fg
                ELSE IF t.kind = "reheat" THEN FALSE
                ELSE fitGraph(fg, t.width, t.height)
    IN  /\ BagIn(t, ftTimers)
        /\ ftTimers' = IF t.kind = "reheat" THEN schedule(rest, Timer("frame", ZeroRect)) ELSE rest
        /\ ftFitted' = (ftFitted \/ zoom)
        /\ ftFitDims' = IF zoom THEN ftDims ELSE ftFitDims
        /\ UNCHANGED <<ftPhase, ftDims, ftEvents,
                       genVars, scVars, prVars, rdVars, fVars, cdVars, appVars, gdVars>>

\* teardown: the cleanups of the resize effect and of the graphData effect
FitUnmount ==
    /\ ftPhase = "running"
    /\ ftPhase' = "torn"
    /\ ftTimers' = clearKind(clearKind(ftTimers, "resize"), "graph")
    /\ UNCHANGED <<ftDims, ftEvents, ftFitted, ftFitDims,
                   genVars, scVars, prVars, rdVars, fVars, cdVars, appVars, gdVars>>

TimerKinds == {"mount", "spec", "graph", "resize", "reset", "reheat", "frame"}

Timers == {Timer(k, d) : k \in TimerKinds, d \in Rects}

---------------------------------------------------------------------------
(* Specification SpecGraph: a generated, built-in or hand-tagged spec is     *)
(* turned into the node and link set handed to the force graph.              *)

PIN_VIEW == 300
PIN_NOISE == -300

\* s.tags?.includes(tag)
hasTag(space, tag) == space.tags # None /\ tag \in Range(Get(space.tags))

\* the 'noise' tag is looked at first
nodeOf_noiseFirst(space) ==
    [id |-> space.id,
     name |-> IF space.name = None THEN space.id ELSE Get(space.name),
     area_target |-> space.area_target,
     zone |-> space.zone,
     tags |-> IF space.tags = None THEN <<>> ELSE Get(space.tags),
     fx |-> IF hasTag(space, "noise") THEN Some(PIN_NOISE)
            ELSE IF hasTag(space, "view") THEN Some(PIN_VIEW) ELSE None,
     fy |-> None]

\* one node of graphData: fx is set for 'view', else for 'noise'; fy never
nodeOf(space) ==
    [id |-> space.id,
     name |-> IF space.name = None THEN space.id ELSE Get(space.name),
     area_target |-> space.area_target,
     zone |-> space.zone,
     tags |-> IF space.tags = None THEN <<>> ELSE Get(space.tags),
     fx |-> IF hasTag(space, "view") THEN Some(PIN_VIEW)
            ELSE IF hasTag(space, "noise") THEN Some(PIN_NOISE) ELSE None,
     fy |-> None]

linkOf(e) == [source |-> e.source, target |-> e.target, weight |-> e.weight, type |-> e.type]

\* the graphData memo for a spec
graphData(spec) ==
    [nodes |-> [i \in 1..Len(spec.spaces) |-> nodeOf(spec.spaces[i])],
     links |-> [i \in 1..Len(spec.edges) |-> linkOf(spec.edges[i])]]

NoGraph == [nodes |-> <<>>, links |-> <<>>]

\* the tag lists a hand-authored or decoded spec may give a space
TagLists == {None, Some(<<>>), Some(<<"view">>), Some(<<"noise">>), Some(<<"vent", "noise">>),
             Some(<<"view", "noise">>), Some(<<"noise", "vent", "view">>)}

RetaggedIdx == {1, 2}

GraphSpecs ==
    {formDataToSpec([getDefaultSpecByRoomType(rt) EXCEPT !.conditions = c]) :
        rt \in RoomTypes, c \in Conditions}
    \cup {twoRoomStandardPreset, sampleSpec}

GraphIdle == gdPhase = "idle" /\ gdSpec = NoSpec /\ gdData = NoGraph

GraphInit == gdPhase = "spec" /\ gdSpec \in GraphSpecs /\ gdData = NoGraph

\* the tags of one space are written by hand (the schema takes any strings)
Retag ==
    /\ gdPhase = "spec"
    /\ \E i \in RetaggedIdx, tags \in TagLists :
          /\ i <= Len(gdSpec.spaces) /\ gdSpec.spaces[i].tags # tags
          /\ gdSpec' = [gdSpec EXCEPT !.spaces[i].tags = tags]
    /\ gdPhase' = "tagged"
    /\ UNCHANGED <<gdData, genVars, scVars, prVars, rdVars, fVars, cdVars, appVars, ftVars>>

\* the memo is computed for the spec of the render
Derive ==
    /\ gdPhase \in {"spec", "tagged"}
    /\ gdData' = graphData(gdSpec)
    /\ gdPhase' = "derived"
    /\ UNCHANGED <<gdSpec, genVars, scVars, prVars, rdVars, fVars, cdVars, appVars, ftVars>>

---------------------------------------------------------------------------
(* Specifications *)

InitGen == GenInit /\ ScaleIdle /\ PruneIdle /\ RadiusIdle /\ ForceIdle /\ CodecIdle /\ AppIdle /\ FitIdle /\ GraphIdle
NextGen == Generate
SpecGen == InitGen /\ [][NextGen]_vars

InitScale == ScaleInit /\ GenIdle /\ PruneIdle /\ RadiusIdle /\ ForceIdle /\ CodecIdle /\ AppIdle /\ FitIdle /\ GraphIdle
NextScale == Scale
SpecScale == InitScale /\ [][NextScale]_vars

InitPrune == PruneInit /\ GenIdle /\ ScaleIdle /\ RadiusIdle /\ ForceIdle /\ CodecIdle /\ AppIdle /\ FitIdle /\ GraphIdle
NextPrune == HandEdit \/ Prune
SpecPrune == InitPrune /\ [][NextPrune]_vars

InitRadius == RadiusInit /\ GenIdle /\ ScaleIdle /\ PruneIdle /\ ForceIdle /\ CodecIdle /\ AppIdle /\ FitIdle /\ GraphIdle
NextRadius == SetArea
SpecRadius == InitRadius /\ [][NextRadius]_vars

InitForce == ForceInit /\ GenIdle /\ ScaleIdle /\ PruneIdle /\ RadiusIdle /\ CodecIdle /\ AppIdle /\ FitIdle /\ GraphIdle
NextForce == Initialize \/ ForceTick
SpecForce == InitForce /\ [][NextForce]_vars

InitCodec == CodecInit /\ GenIdle /\ ScaleIdle /\ PruneIdle /\ RadiusIdle /\ ForceIdle /\ AppIdle /\ FitIdle /\ GraphIdle
NextCodec == Author \/ Validate \/ Encode \/ Tamper \/ Decode
SpecCodec == InitCodec /\ [][NextCodec]_vars

InitApp == AppInit /\ GenIdle /\ ScaleIdle /\ PruneIdle /\ RadiusIdle /\ ForceIdle /\ CodecIdle /\ FitIdle /\ GraphIdle
NextApp ==
    \/ Mount
    \/ \E rect \in AppRects : Resize(rect)
    \/ \E rt \in RoomTypes : loadPresetByRoomType(rt)
    \/ \E id \in EditedIds, val \in EditedAreas : EditArea(id, val)
    \/ \E id \in EditedIds, kind \in {"positive", "negative"}, sel \in Selections :
          EditRelations(id, kind, sel)
    \/ Tick
SpecApp == InitApp /\ [][NextApp]_vars

InitFit == FitInit /\ GenIdle /\ ScaleIdle /\ PruneIdle /\ RadiusIdle /\ ForceIdle /\ CodecIdle /\ AppIdle /\ GraphIdle
NextFit ==
    \/ \E rect \in Rects, specSet \in BOOLEAN : FitMount(rect, specSet)
    \/ \E rect \in Rects : FitResize(rect)
    \/ FitSpecChange
    \/ FitLoadPreset
    \/ FitResetLayout
    \/ \E t \in Timers : FitFire(t)
    \/ FitUnmount
SpecFit == InitFit /\ [][NextFit]_vars

\* the event loop runs every pending timer and animation-frame callback
FairFit == WF_vars(\E t \in Timers : FitFire(t))
SpecFitLive == InitFit /\ [][NextFit]_vars /\ FairFit

InitGraph == GraphInit /\ GenIdle /\ ScaleIdle /\ PruneIdle /\ RadiusIdle /\ ForceIdle /\ CodecIdle /\ AppIdle /\ FitIdle
NextGraph == Retag \/ Derive
SpecGraph == InitGraph /\ [][NextGraph]_vars

---------------------------------------------------------------------------
(* Claims *)

IdsOf(spaces) == [i \in 1..Len(spaces) |-> spaces[i].id]

ScalePre ==
    /\ scIn.unitTargetAreaM2 > 0
    /\ \A i \in 1..Len(scIn.spaces) :
          /\ scIn.spaces[i].area_target > 0
          /\ scIn.spaces[i].areaMin = None
          /\ scIn.spaces[i].areaMax = None

\* C3: for a positive unit target and positive room areas without per-room
\* bounds, and any allowance ratio, after scaleRoomAreasToUnitTarget the
\* resulting area sum is at most the unit target (within 0.01 m2) or the
\* returned overBudget flag is true.
C3_BudgetConvergence ==
    (scPhase = "done" /\ ScalePre) =>
        \/ areaSum(scOut.spaces) <= scIn.unitTargetAreaM2 + 1
        \/ scOut.overBudget

\* the flagged branch: a negative allowance leaves the sum above the target
C3_Witness ==
    /\ scPhase = "done" /\ ScalePre
    /\ areaSum(scOut.spaces) > scIn.unitTargetAreaM2 + 1
    /\ scOut.overBudget
    /\ Len(scIn.spaces) >= 2

\* C4: for every room count n and every FormData, formDataToSpec returns the
\* synthetic unit space followed by exactly the catalog rooms of n in catalog
\* order; the unit space has id 'unit', zone 'unit' and the preset's unscaled
\* unitTargetAreaM2 as area_target.  For n = 2 these are the 8 rooms of the
\* 2-room preset plus unit.
C4_UnitPlusCatalogRooms ==
    genPhase = "spec" =>
        LET n == genForm.roomType
            rooms == ROOM_TYPE_PRESETS[n].rooms
            sp == genSpec.spaces
        IN  /\ Len(sp) = Len(rooms) + 1
            /\ sp[1].id = "unit" /\ sp[1].zone = "unit"
            /\ sp[1].area_target = M2(<<35, 60, 85, 150>>[n])
            /\ \A i \in 1..Len(rooms) :
                  /\ sp[i + 1].id = rooms[i].id
                  /\ sp[i + 1].name = Some(rooms[i].name)
                  /\ sp[i + 1].zone = rooms[i].zone
            /\ n = 2 => IdsOf(sp) = <<"unit", "living", "dining", "kitchen", "bath",
                                      "bed1", "bed2", "balcony", "entryway">>

\* Scenario A has been generated
C4_Witness ==
    /\ genPhase = "spec" /\ genForm.roomType = 2
    /\ genForm.conditions = [scenicView |-> FALSE, noiseControl |-> FALSE, ventilation |-> FALSE]
    /\ Len(genSpec.spaces) = 9
    /\ genSpec.spaces[1].area_target = M2(60)

BedLink(e) ==
    \/ e.source \in Bedrooms /\ e.target \in {"living", "entryway"}
    \/ e.target \in Bedrooms /\ e.source \in {"living", "entryway"}

\* C5: for every room count, the spec generated with ventilation = true has
\* the same edges as the one generated with ventilation = false, where every
\* edge joining a bedroom to living or entryway weighs exactly 1.5 times its
\* ventilation = false weight and every other edge is unchanged (living-kitchen
\* stays 1.5); scenicView and noiseControl change no edge weight.
C5_VentilationBoost ==
    genPhase = "spec" =>
        LET e1 == genSpec.edges
            e0 == formDataToSpec([genForm EXCEPT !.conditions.ventilation = FALSE]).edges
            plain == formDataToSpec([genForm EXCEPT !.conditions.scenicView = FALSE,
                                                    !.conditions.noiseControl = FALSE]).edges
        IN  /\ Len(e1) = Len(e0)
            /\ \A i \in 1..Len(e1) :
                  /\ e1[i].source = e0[i].source /\ e1[i].target = e0[i].target
                  /\ e1[i].type = e0[i].type
                  /\ 2 * e1[i].weight =
                        IF genForm.conditions.ventilation /\ BedLink(e1[i])
                        THEN 3 * e0[i].weight ELSE 2 * e0[i].weight
                  /\ (e1[i].source = "living" /\ e1[i].target = "kitchen") => e1[i].weight = 150
            /\ e1 = plain

\* Scenario B has been generated: living-bed2 is boosted from 1 to 1.5
C5_Witness ==
    /\ genPhase = "spec" /\ genForm.roomType = 2 /\ genForm.conditions.ventilation
    /\ \E i \in 1..Len(genSpec.edges) :
          /\ genSpec.edges[i].source = "living" /\ genSpec.edges[i].target = "bed2"
          /\ genSpec.edges[i].weight = 150

RelationEntries(spaces) ==
    UNION {Range(spaces[i].relations.positive) \cup Range(spaces[i].relations.negative) :
             i \in 1..Len(spaces)}

EdgeEnds(edges) == UNION {{edges[i].source, edges[i].target} : i \in 1..Len(edges)}

\* C2: for every spec, also one that lacks catalog rooms, and every room
\* count, in the result of pruneSpecToRoomType every edge endpoint and every
\* relation entry is the id of a space of the pruned spaces list.
C2_PruningClosure ==
    prPhase = "pruned" =>
        EdgeEnds(prOut.edges) \cup RelationEntries(prOut.spaces) \subseteq Range(IdsOf(prOut.spaces))

\* C6: for every spec and room count n, the pruned spec has no space, edge
\* endpoint or relation entry with an id outside the catalog slots of n plus
\* 'unit'; pruning to room count 1 leaves nothing that names bed3 or bed4.
C6_PrunedIdsAllowed ==
    prPhase = "pruned" =>
        LET used == Range(IdsOf(prOut.spaces)) \cup EdgeEnds(prOut.edges)
                      \cup RelationEntries(prOut.spaces)
        IN  /\ used \subseteq {ROOM_TYPE_PRESETS[prRoomType].rooms[i].id :
                                 i \in 1..Len(ROOM_TYPE_PRESETS[prRoomType].rooms)} \cup {"unit"}
            /\ prRoomType = 1 => used \cap {"bed3", "bed4"} = {}

\* Scenario D: a spec with rooms bed3 and bed4, an edge to bed4 and a relation
\* naming bed4 has been pruned to room count 1
C6_Witness ==
    /\ prPhase = "pruned" /\ prRoomType = 1
    /\ {"bed3", "bed4"} \subseteq Range(IdsOf(prSpec.spaces))
    /\ "bed4" \in EdgeEnds(prSpec.edges)
    /\ "bed4" \in RelationEntries(prSpec.spaces)
    /\ Len(prOut.spaces) = 7

\* C7: clampNodeRadius with its default bounds is monotone non-decreasing in
\* the area: whenever the area of a node grows (also from 0), its radius does
\* not shrink.
C7_RadiusMonotone == [][rdArea < rdArea' => rdRadius <= rdRadius']_vars

\* C8: for every non-negative area, clampNodeRadius with its default bounds
\* returns a radius within [8, 40].
C8_RadiusInRange == rdArea >= 0 => (8000 <= rdRadius /\ rdRadius <= 40000)

\* an area above 184.96 m2, where the unclamped radius would exceed 40
C8_Witness == rdArea >= M2(190) /\ rdRadius = 40000

Dist2(nodes, p) ==
    (nodes[p.target].x - nodes[p.source].x) * (nodes[p.target].x - nodes[p.source].x)
    + (nodes[p.target].y - nodes[p.source].y) * (nodes[p.target].y - nodes[p.source].y)

Resolved(p) == p.source \in fNodeById /\ p.target \in fNodeById

FarPair(p) == Resolved(p) /\ Dist2(fNodes, p) >= 260 * 260

\* C9: a tick of the negative-relation force adds nothing to vx and vy of the
\* two nodes of a pair at distance d >= 260: a node whose pairs are all that
\* far keeps its velocity; and what a pair adds never moves its two nodes
\* toward each other.
C9_NoForceAtDesiredDistance ==
    fTicks > 0 =>
        /\ \A i \in 1..Len(fPairs) : FarPair(fPairs[i]) => fContrib[i] = ZeroDelta
        /\ \A n \in DOMAIN fNodes :
              (\A i \in 1..Len(fPairs) :
                    n \in {fPairs[i].source, fPairs[i].target} =>
                        (FarPair(fPairs[i]) \/ ~Resolved(fPairs[i])))
                 => <<fNodes[n].vx, fNodes[n].vy>> = fPrev[n]
        /\ \A i \in 1..Len(fPairs) :
              Resolved(fPairs[i]) =>
                 LET a == fNodes[fPairs[i].source]
                     b == fNodes[fPairs[i].target]
                 IN  /\ fContrib[i].ax * (b.x - a.x) + fContrib[i].ay * (b.y - a.y) <= 0
                     /\ fContrib[i].bx * (b.x - a.x) + fContrib[i].by * (b.y - a.y) >= 0

\* a tick has run on a list holding a pair beyond 260 (its nodes kept their
\* velocity) and a closer pair (whose nodes were pushed)
C9_Witness ==
    /\ fTicks > 0
    /\ \E i \in 1..Len(fPairs) :
          /\ Resolved(fPairs[i]) /\ Dist2(fNodes, fPairs[i]) > 260 * 260
          /\ <<fNodes[fPairs[i].source].vx, fNodes[fPairs[i].source].vy>> = fPrev[fPairs[i].source]
    /\ \E i \in 1..Len(fPairs) : fContrib[i] # ZeroDelta

\* an id list left out parses to the empty list
SameList(opt, list) == opt = Some(list) \/ (opt = None /\ list = <<>>)

\* structural equality of a raw spec and a parsed one, up to the defaults
\* of the optional fields
SameSpace(r, d) ==
    /\ r.id = Some(d.id) /\ r.name = d.name /\ r.area_target = Some(d.area_target)
    /\ r.zone = Some(d.zone) /\ r.areaMin = d.areaMin /\ r.areaMax = d.areaMax
    /\ r.tags = d.tags /\ r.meta = d.meta
    /\ IF r.relations = None THEN d.relations = EmptyRelations
       ELSE /\ SameList(Get(r.relations).positive, d.relations.positive)
            /\ SameList(Get(r.relations).negative, d.relations.negative)

SameEdge(r, d) ==
    /\ r.source = Some(d.source) /\ r.target = Some(d.target) /\ r.meta = d.meta
    /\ r.weight = Some(d.weight) \/ (r.weight = None /\ d.weight = 100)
    /\ r.type = Some(d.type) \/ (r.type = None /\ d.type = "adjacent")

SameContent(raw, data) ==
    /\ raw.meta = data.meta
    /\ Len(Get(raw.spaces)) = Len(data.spaces)
    /\ \A i \in 1..Len(data.spaces) : SameSpace(Get(raw.spaces)[i], data.spaces[i])
    /\ IF raw.edges = None THEN data.edges = <<>>
       ELSE /\ Len(Get(raw.edges)) = Len(data.edges)
            /\ \A i \in 1..Len(data.edges) : SameEdge(Get(raw.edges)[i], data.edges[i])

MetaRecords(raw) ==
    {Get(raw.spaces)[i].meta : i \in 1..Len(Get(raw.spaces))}
    \cup (IF raw.edges = None THEN {} ELSE {Get(raw.edges)[i].meta : i \in 1..Len(Get(raw.edges))})

\* every value of every opaque meta record is one JSON can carry
JsonSafe(raw) ==
    \A m \in MetaRecords(raw) \ {None} :
        \A k \in DOMAIN Get(m) : Get(m)[k].kind \in {"number", "null"}

C10_TickUsesForcesOfCurrentSpec ==
    [][appTicks' > appTicks => appTickForces' = installForces(appSpec, EngineFresh)]_vars

\* C11: the resize-driven fit and the spec-change-driven fit each have at
\* most one pending timer at any time.
C11_OnePendingTimerPerSource ==
    /\ pending(ftTimers, {"resize"}) <= 1
    /\ pending(ftTimers, {"spec", "graph"}) <= 1

\* C19: after teardown no timer that schedules a fit-to-view (resize
\* debounce, spec-change debounce and delay, post-mount and post-reset delays)
\* is still pending.
C19_NoFitTimerAfterTeardown ==
    ftPhase = "torn" => pending(ftTimers, {"resize", "graph", "spec", "mount", "reset"}) = 0

\* C20: a fit-to-view is requested only while the measured width and height
\* of the container both exceed 200 px.
C20_FitOnlyAboveThreshold ==
    ftFitted => ftFitDims.width > FitThreshold /\ ftFitDims.height > FitThreshold

\* the preset the query string selects: the one of rt (of roomType when rt is
\* absent or empty) when that is "1".."4", the built-in default otherwise
StartupPreset ==
    LET rtParam == IF appQuery.rt \in {None, Some("")} THEN appQuery.roomType ELSE appQuery.rt
    IN  IF rtParam \in {Some("1"), Some("2"), Some("3"), Some("4")}
        THEN buildPresetStateByRoomType(parseRoomType(Get(rtParam))).spec
        ELSE twoRoomStandardPreset

\* C12: on startup a token s that decodes becomes the current spec whatever
\* rt / roomType selected; when s is absent or fails to decode (corrupt token,
\* text that is no JSON, JSON the schema rejects) the current spec is the
\* preset selected by rt / roomType, or the built-in default preset.
C12_StartupSpec ==
    [][(appPhase = "unmounted" /\ appPhase' = "running") =>
            IF appQuery.s = Some(ValidToken) THEN appSpec' = sampleSpec
            ELSE IF appQuery.s = Some(DanglingToken) THEN appSpec' = DanglingSpec
            ELSE IF appQuery.s = Some(UncheckedToken) THEN appSpec' = UncheckedSpec
            ELSE appSpec' = StartupPreset]_vars

\* started with rt=1 and a token that fails to decode: the 1-room preset shows
C12_Witness ==
    /\ appPhase = "running" /\ appEdits = 0
    /\ appQuery.rt = Some("1") /\ appQuery.s \notin {None, Some(ValidToken)}
    /\ appSpec = buildPresetStateByRoomType(1).spec
    /\ appRoomType = 1

\* C13: decodeSpecFromQuery returns, for every token, either success with a
\* validated spec or a failure without data whose error tells the cause:
\* 'decompress failed' exactly when the token has no decompressed text, the
\* SyntaxError exactly when the decompressed text is no JSON, the ZodError
\* exactly when the text is JSON that the schema rejects.
C13_DecodeFailureCauses ==
    cdPhase = "decoded" =>
        LET noText == cdToken \in {[corrupt |-> "null"], [corrupt |-> "empty"]}
            noJson == cdToken \in {[corrupt |-> "garbage"], [lz |-> [text |-> "{"]]}
            isJson == ~noText /\ ~noJson
        IN  /\ cdResult.success =>
                /\ isJson
                /\ validateSpec(RawOfSpec(cdResult.data)) = cdResult
            /\ ~cdResult.success =>
                /\ cdResult.data = NoData
                /\ cdResult.error \in {"decompress failed", "SyntaxError", "zod"}
            /\ (cdResult.error = "decompress failed") <=> noText
            /\ (cdResult.error = "SyntaxError") <=> noJson
            /\ (cdResult.error = "zod") <=> (isJson /\ ~validateSpec(cdToken.lz.json).success)
            /\ (cdResult.error = "zod") => cdResult.issues # {}

\* a token the library decompresses to null was decoded
C13_Witness ==
    /\ cdPhase = "decoded" /\ cdToken = [corrupt |-> "null"]
    /\ ~cdResult.success /\ cdResult.error = "decompress failed"

C15_RoomTypeRoundTrip ==
    genPhase = "spec" => specToFormData(genSpec).roomType = genForm.roomType

\* C16: in the spec formDataToSpec returns, the source and target of every
\* edge and every entry of every room's positive and negative relations is the
\* id of a room among the returned spaces, and a slot of the form's room count.
C16_ReferencesResolve ==
    genPhase = "spec" =>
        LET ids == {genSpec.spaces[i].id : i \in 1..Len(genSpec.spaces)} \ {"unit"}
            slots == SlotIds(genForm.roomType)
        IN  /\ \A e \in Range(genSpec.edges) : {e.source, e.target} \subseteq ids \cap slots
            /\ \A i \in 1..Len(genSpec.spaces) :
                  Range(genSpec.spaces[i].relations.positive)
                      \cup Range(genSpec.spaces[i].relations.negative) \subseteq ids \cap slots

\* a one-room spec was generated and base edges of rooms it lacks were dropped
C16_Witness ==
    /\ genPhase = "spec" /\ genForm.roomType = 1
    /\ genSpec.edges # <<>>
    /\ \E e \in Range(generateEdgesWithConditions(genForm.conditions)) :
          /\ {e.source, e.target} \cap {"dining", "bed2"} # {}
          /\ e \notin Range(genSpec.edges)
    /\ \E i \in 1..Len(genSpec.spaces) : genSpec.spaces[i].relations.positive # <<>>

C18_RelationForcesFollowPairs ==
    [][(appSpec' # appSpec /\ appEngine' # None) =>
          /\ IsSome(Get(appEngine').relationsLink) <=> (Len(positivePairs(appSpec')) > 0)
          /\ IsSome(Get(appEngine').negRelations) <=> (Len(negativePairs(appSpec')) > 0)]_vars

\* C21: in every state of the running application every space of the current
\* spec has area_target >= 0.
C21_AreasNonNegative ==
    appPhase = "running" =>
        \A i \in 1..Len(appSpec.spaces) : appSpec.spaces[i].area_target >= 0

\* C22: in every state of the running application the ids of the spaces of
\* the current spec are pairwise different, and no space has its own id among
\* its positive or negative relations.
C22_UniqueIdsNoSelfRelation ==
    appPhase = "running" =>
        /\ \A i, j \in 1..Len(appSpec.spaces) :
              appSpec.spaces[i].id = appSpec.spaces[j].id => i = j
        /\ \A i \in 1..Len(appSpec.spaces) :
              appSpec.spaces[i].id \notin
                  Range(appSpec.spaces[i].relations.positive)
                      \cup Range(appSpec.spaces[i].relations.negative)

\* the spec has an edge endpoint or a relation entry that is no space's id
HasUnresolvedIds(spec) ==
    LET ids == {spec.spaces[i].id : i \in 1..Len(spec.spaces)}
    IN  \/ \E e \in Range(spec.edges) : ~({e.source, e.target} \subseteq ids)
        \/ \E i \in 1..Len(spec.spaces) :
              ~(Range(spec.spaces[i].relations.positive)
                    \cup Range(spec.spaces[i].relations.negative) \subseteq ids)

\* C23: for a spec with edges or relations naming ids that no space has, the
\* force-installation effect on a mounted graph completes: the collision
\* force is installed, and each of the two relation forces is installed when
\* the spec yields pairs for it and cleared when it yields none.
C23_UnresolvedIdsCompose ==
    [][(appSpec' # appSpec /\ appEngine' # None /\ HasUnresolvedIds(appSpec')) =>
          Get(appEngine') =
            [collide |-> Some([padding |-> COLLISION_PADDING, iterations |-> COLLISION_ITERATIONS]),
             relationsLink |->
                IF positivePairs(appSpec') = <<>> THEN None
                ELSE Some([pairs |-> positivePairs(appSpec'), distance |-> POS_LINK_DISTANCE,
                           strength |-> POS_LINK_STRENGTH]),
             negRelations |->
                IF negativePairs(appSpec') = <<>> THEN None
                ELSE Some([pairs |-> negativePairs(appSpec'), distance |-> NEGATIVE_DESIRED_DISTANCE,
                           strength |-> NEGATIVE_STRENGTH])]]_vars

\* C24: when the room count is switched in the running application, a room
\* that is in the spec before and after the switch and whose area the user
\* had entered (the generator gives no room an area of 0 or less, so such an
\* area is the user's) has that area after the switch.
C24_SwitchKeepsEdits ==
    [][(appPhase = "running" /\ appRoomType' # appRoomType) =>
          \A i \in 1..Len(appSpec.spaces), j \in 1..Len(appSpec'.spaces) :
              (/\ appSpec.spaces[i].id = appSpec'.spaces[j].id
               /\ appSpec.spaces[i].area_target \in {parseAreaInput(t) : t \in EditedAreas})
              => appSpec'.spaces[j].area_target = appSpec.spaces[i].area_target]_vars

\* C25: for every room count and every combination of conditions, each
\* generated room carries 'view' exactly when scenicView is set and it is the
\* living room, the master bedroom or the balcony, 'noise' exactly when
\* noiseControl is set and it is a secondary bedroom (bed2, bed3, bed4) or the
\* bathroom, 'vent' exactly when ventilation is set and it is the living room,
\* the kitchen or the entryway, and no other tag.
C25_TagsFollowMapping ==
    genPhase = "spec" =>
        \A i \in 1..Len(genSpec.spaces) :
            LET sp == genSpec.spaces[i]
                tags == IF sp.tags = None THEN {} ELSE Range(Get(sp.tags))
                cond == genForm.conditions
            IN  sp.id # "unit" =>
                  /\ tags \subseteq {"view", "noise", "vent"}
                  /\ "view" \in tags <=> (cond.scenicView /\ sp.id \in {"living", "bed1", "balcony"})
                  /\ "noise" \in tags <=>
                        (cond.noiseControl /\ sp.id \in {"bed2", "bed3", "bed4", "bath"})
                  /\ "vent" \in tags <=> (cond.ventilation /\ sp.id \in {"living", "kitchen", "entryway"})

\* push = ((desired - d) / desired) * strength * alpha for the two nodes of
\* pair p, in 1/1000, from the distance in 1/10 px
ExpectedPush(p, alpha) ==
    LET d == ISqrt(100 * Dist2(fNodes, p))
    IN  ((10 * NEGATIVE_DESIRED_DISTANCE - d) * NEGATIVE_STRENGTH * alpha)
            \div (10 * NEGATIVE_DESIRED_DISTANCE * 1000)

\* C26: for every resolved pair (a, b) at distance d < 260, d = 0 included,
\* and every alpha, what a tick adds to a and to b is equal and opposite, has
\* the magnitude push (within 3/1000, the rounding of the fixed-point
\* arithmetic), lies on the line through a and b and points away from the
\* other node; and the pair (b, a) adds the same to each node.
C26_PushApartByPush ==
    fTicks > 0 =>
        \A i \in 1..Len(fPairs), alpha \in Alphas :
            (Resolved(fPairs[i]) /\ Dist2(fNodes, fPairs[i]) < 260 * 260) =>
                LET a == fNodes[fPairs[i].source]
                    b == fNodes[fPairs[i].target]
                    c == pairDelta(a, b, alpha)
                    r == pairDelta(b, a, alpha)
                    push == ExpectedPush(fPairs[i], alpha)
                    m2 == c.bx * c.bx + c.by * c.by
                IN  /\ c.ax = -c.bx /\ c.ay = -c.by
                    /\ m2 <= (push + 3) * (push + 3)
                    /\ push >= 3 => m2 >= (push - 3) * (push - 3)
                    /\ c.bx * (b.x - a.x) + c.by * (b.y - a.y) >= 0
                    /\ Abs(c.bx * (b.y - a.y) - c.by * (b.x - a.x)) <= Abs(b.x - a.x) + Abs(b.y - a.y)
                    /\ r.ax = c.bx /\ r.ay = c.by /\ r.bx = c.ax /\ r.by = c.ay

\* C27 as stated: in the node set derived from any spec every node of a space
\* tagged 'view' has fx = 300, every node of a space tagged 'noise' has
\* fx = -300, a node with neither tag has no fx, and no node has fy.
C27_PinnedByTag ==
    gdPhase = "derived" =>
        \A i \in 1..Len(gdData.nodes) :
            LET node == gdData.nodes[i]
                space == gdSpec.spaces[i]
            IN  /\ node.id = space.id
                /\ hasTag(space, "view") => node.fx = Some(300)
                /\ hasTag(space, "noise") => node.fx = Some(-300)
                /\ (~hasTag(space, "view") /\ ~hasTag(space, "noise")) => node.fx = None
                /\ node.fy = None

\* C27 amended: every node of a space tagged 'view' has fx = 300, every node
\* of a space tagged 'noise' and not 'view' has fx = -300, a node with neither
\* tag has no fx, and no node has fy.
C27_PinnedByTagViewFirst ==
    gdPhase = "derived" =>
        /\ Len(gdData.nodes) = Len(gdSpec.spaces)
        /\ \A i \in 1..Len(gdData.nodes) :
            LET node == gdData.nodes[i]
                space == gdSpec.spaces[i]
            IN  /\ node.id = space.id
                /\ hasTag(space, "view") => node.fx = Some(300)
                /\ (hasTag(space, "noise") /\ ~hasTag(space, "view")) => node.fx = Some(-300)
                /\ (~hasTag(space, "view") /\ ~hasTag(space, "noise")) => node.fx = None
                /\ node.fy = None

\* a node set with a node tagged both ways, pinned at 300, one tagged 'noise'
\* alone, pinned at -300, and a free one
C27_Witness ==
    /\ gdPhase = "derived"
    /\ \E i \in 1..Len(gdData.nodes) :
          /\ hasTag(gdSpec.spaces[i], "view") /\ hasTag(gdSpec.spaces[i], "noise")
          /\ gdData.nodes[i].fx = Some(300)
    /\ \E i \in 1..Len(gdData.nodes) :
          /\ hasTag(gdSpec.spaces[i], "noise") /\ ~hasTag(gdSpec.spaces[i], "view")
          /\ gdData.nodes[i].fx = Some(-300)
    /\ \E i \in 1..Len(gdData.nodes) : gdData.nodes[i].fx = None

\* C28: after generation, every room slot of generateSpacesByRoomType carries
\* the area entered for it in the form (before the area-budget scaling): an
\* entered non-negative value, zero included, is never replaced by the default.
C28_EnteredAreaTaken ==
    genPhase = "spec" =>
        LET spaces == generateSpacesByRoomType(genForm.roomType, genForm.areas, genForm.conditions)
        IN  \A i \in 1..Len(spaces) :
                areaMap(genForm.areas, spaces[i].id) >= 0
                    => spaces[i].area_target = areaMap(genForm.areas, spaces[i].id)

\* C29: every reset of the layout is eventually followed by a reheat of the
\* simulation: once resetLayout has acted (its fit timer is pending), the 0 ms
\* reheat callback runs, which is seen by the animation frame it requests.
C29_ResetLeadsToReheat ==
    (pending(ftTimers, {"reset"}) > 0) ~> (pending(ftTimers, {"frame"}) > 0)

\* a space without its relation lists: id, name, area_target, zone, tags, bounds
SpaceFields(space) ==
    [id |-> space.id, name |-> space.name, area_target |-> space.area_target,
     zone |-> space.zone, tags |-> space.tags,
     areaMin |-> space.areaMin, areaMax |-> space.areaMax]

SpaceFieldsOf(spaces) == [i \in 1..Len(spaces) |-> SpaceFields(spaces[i])]

\* a is b with some elements left out, the others in their order
RECURSIVE IsSubsequence(_, _)
IsSubsequence(a, b) ==
    IF a = <<>> THEN TRUE
    ELSE IF b = <<>> THEN FALSE
    ELSE IF Head(a) = Head(b) THEN IsSubsequence(Tail(a), Tail(b))
    ELSE IsSubsequence(a, Tail(b))

\* C30: pruneSpecToRoomType changes only membership: the step that prunes
\* leaves the input spec as it was; in the result meta is the input's, the
\* spaces are input spaces with id, name, area_target, zone, tags and bounds
\* unchanged and in their input order, the edges are input edges with weight
\* and type unchanged and in their input order; pruning the result again to
\* the same room count gives back the result.
C30_PruneOnlyMembership ==
    [][(prPhase = "edit" /\ prPhase' = "pruned") =>
          /\ prSpec' = prSpec
          /\ prOut'.meta = prSpec.meta
          /\ IsSubsequence(SpaceFieldsOf(prOut'.spaces), SpaceFieldsOf(prSpec.spaces))
          /\ IsSubsequence(prOut'.edges, prSpec.edges)
          /\ pruneSpecToRoomType(prOut', prRoomType') = prOut']_vars

\* a spec with meta was pruned: at least two spaces and an edge survived,
\* a space and an edge were dropped
C30_Witness ==
    /\ prPhase = "pruned"
    /\ prSpec.meta # None
    /\ Len(prOut.spaces) >= 2 /\ Len(prOut.spaces) < Len(prSpec.spaces)
    /\ Len(prOut.edges) >= 1 /\ Len(prOut.edges) < Len(prSpec.edges)

===========================================================================
